---- MODULE Spec2Model ----
(***************************************************************************)
(* A model of sf2-to-opxy: the zone selector (selection.py), the           *)
(* conversion orchestrator (converter.py), the resampler (audio.py) and    *)
(* the loop-offset variants (loop_variants.py).                            *)
(*                                                                         *)
(* Each component is checked under its own specification; the variables    *)
(* of the other components stay at their idle values.                      *)
(***************************************************************************)
EXTENDS Integers, Sequences, FiniteSets, TLC

VARIABLES
    \* selection.py, called on its own
    sel_zones,      \* the zone list passed in (zones are mutated in place)
    sel_max_zones,  \* max_zones
    sel_key_min,    \* key_min
    sel_key_max,    \* key_max
    sel_call,       \* which function has been called: "none", "select", "assign"
    sel_ret,        \* what the call returned or raised
    \* converter.py, convert_presets
    presets,            \* the presets argument; the zones are mutated in place
    velocities,         \* the velocities argument
    velocity_mode,      \* "keep" or "split"
    drum_velocity_mode, \* "closest" or "strict"
    force_mode,         \* "none" (None), "drum" or "instrument"
    bit_depth,
    conv_pc,            \* "idle", "call", "loop" or "returned"
    conv_i,             \* how many presets the loop has converted
    log,                \* the diagnostics accumulator
    written,            \* the patches handed to the writer, in order
    keywords,           \* the names of the other keyword arguments of the call
    progress_calls,     \* the calls a progress callback has received
    \* converter.py, _select_drum_zones_by_velocity called on its own
    drum_zones,         \* the zones argument
    drum_vels,          \* the velocities argument
    drum_call,          \* whether the call has been made
    drum_ret,           \* the positions of the zones returned, and the log
    \* audio.py and _resample_pcm, called on their own
    au_samples,         \* the sample list passed in
    au_src_rate,        \* src_rate
    au_dst_rate,        \* dst_rate
    au_call,            \* "none", "linear", "sinc" or "pcm"
    au_args,            \* the other arguments of the call made
    au_ret,             \* what the call returned or raised
    \* loop_variants.py and apply_loop_end_offset, called on their own
    lp_patch,           \* the patch passed in: a name and its regions
    lp_delta,           \* the offset
    lp_call,            \* "none" or the function called
    lp_ret,             \* what the call returned
    \* scale_attack_seconds, called on its own
    env_seconds,        \* seconds, in ticks of 1/Units of a second
    env_max_seconds,    \* max_seconds, in ticks
    env_call,           \* "none" or "scale_attack_seconds"
    env_ret,            \* the code returned
    \* _env_to_opxy, called on its own
    eo_env,             \* the zone envelope passed in
    eo_call,            \* "none" or "_env_to_opxy"
    eo_ret,             \* the mapped envelope
    \* sf2_reader.py, extract_presets
    rd_sf2,             \* the parsed bank passed in
    rd_pc,              \* "idle", "call", "loop", "returned" or the exception raised
    rd_i,               \* presets walked so far
    rd_out,             \* presets and parse_log as built so far
    \* converter.py, _derive_envelope
    de_zones,           \* the zones passed in
    de_key,             \* "amp_env" or "mod_env"
    de_call,            \* "none" or the function that has returned
    de_ret,             \* <<>> for None, else <<envelope>>
    de_log,             \* the log passed in, as the call leaves it
    \* converter.py, _derive_fx
    fx_zones,           \* the zones passed in
    fx_call,            \* "none" or the function that has returned
    fx_ret,             \* <<>> for None, else <<sends>>
    fx_log,             \* the log passed in, as the call leaves it
    \* converter.py, _adjust_loop_zero_crossing called on its own
    zc_pcm,             \* the interleaved samples
    zc_channels,        \* channels
    zc_start,           \* loop_start
    zc_end,             \* loop_end
    zc_max_distance,    \* max_distance
    zc_call,            \* "none" or the function that has returned
    zc_ret,             \* the pair returned
    zc_log,             \* the log passed in, as the call leaves it
    \* converter.py, the audio and loop of one melodic region
    rg_zone,            \* the zone
    rg_resample,        \* resample
    rg_resample_rate,   \* resample_rate
    rg_zero_crossing,   \* zero_crossing
    rg_call,            \* "none" or "region"
    rg_ret,             \* the sound of the region
    rg_log,             \* the log, as the step leaves it
    \* the bundles of a run: names, directories and files
    nm_bundles,         \* the presets handed to the writers, in order
    nm_k,               \* how many of them have been written
    nm_patches,         \* for each writer call: the directory and the region files
    nm_disk             \* the files of the output directory and what each holds

selVars == <<sel_zones, sel_max_zones, sel_key_min, sel_key_max, sel_call, sel_ret>>

convVars == <<presets, velocities, velocity_mode, drum_velocity_mode, force_mode,
              bit_depth, conv_pc, conv_i, log, written,
              keywords, progress_calls>>

drumVars == <<drum_zones, drum_vels, drum_call, drum_ret>>

auVars == <<au_samples, au_src_rate, au_dst_rate, au_call, au_args, au_ret>>

lpVars == <<lp_patch, lp_delta, lp_call, lp_ret>>

envVars == <<env_seconds, env_max_seconds, env_call, env_ret>>

eoVars == <<eo_env, eo_call, eo_ret>>

rdVars == <<rd_sf2, rd_pc, rd_i, rd_out>>

deVars == <<de_zones, de_key, de_call, de_ret, de_log>>

fxVars == <<fx_zones, fx_call, fx_ret, fx_log>>

zcVars == <<zc_pcm, zc_channels, zc_start, zc_end, zc_max_distance, zc_call, zc_ret, zc_log>>

rgVars == <<rg_zone, rg_resample, rg_resample_rate, rg_zero_crossing, rg_call, rg_ret, rg_log>>

nmVars == <<nm_bundles, nm_k, nm_patches, nm_disk>>

vars == <<selVars, convVars, drumVars, auVars, lpVars, envVars, eoVars, rdVars, deVars, fxVars, zcVars, rgVars, nmVars>>

----------------------------------------------------------------------------
\* Generic helpers (Python built-ins)

Min(a, b) == IF a <= b THEN a ELSE b
Max(a, b) == IF a >= b THEN a ELSE b
Abs(a) == IF a < 0 THEN -a ELSE a
\* max(S)
SetMax(S) == CHOOSE k \in S : \A j \in S : j <= k

\* Python 3 round() of the quotient num/den (den > 0): to nearest, halves to even.
PyRound(num, den) ==
    LET q == num \div den
        r == num % den
    IN  IF 2 * r < den THEN q
        ELSE IF 2 * r > den THEN q + 1
        ELSE IF q % 2 = 0 THEN q ELSE q + 1

\* sorted(zones, key=root_key): Python's sort is stable, so a zone goes after
\* every zone already placed whose key is less than or equal to its own.
RECURSIVE InsertByRoot(_, _)
InsertByRoot(sorted, z) ==
    IF sorted = <<>> THEN <<z>>
    ELSE IF sorted[Len(sorted)].root_key <= z.root_key THEN Append(sorted, z)
    ELSE Append(InsertByRoot(SubSeq(sorted, 1, Len(sorted) - 1), z), sorted[Len(sorted)])

RECURSIVE SortedByRoot(_)
SortedByRoot(zones) ==
    IF zones = <<>> THEN <<>>
    ELSE InsertByRoot(SortedByRoot(SubSeq(zones, 1, Len(zones) - 1)), zones[Len(zones)])

Range(s) == {s[i] : i \in DOMAIN s}

----------------------------------------------------------------------------
\* selection.py

\* targets[i] for i in range(max_zones); max_zones - 1 is the divisor.
Target(i, max_zones, key_min, key_max) ==
    PyRound(key_min * (max_zones - 1) + i * (key_max - key_min), max_zones - 1)

\* The inner loop over zones_sorted for one target: the first unused index at
\* the least distance (only a strictly smaller distance replaces the best).
RECURSIVE BestIdx(_, _, _, _, _, _)
BestIdx(zones_sorted, used, target, idx, best_dist, best_idx) ==
    IF idx > Len(zones_sorted) THEN best_idx
    ELSE IF idx \in used
         THEN BestIdx(zones_sorted, used, target, idx + 1, best_dist, best_idx)
    ELSE LET dist == Abs(zones_sorted[idx].root_key - target)
         IN  IF best_idx = 0 \/ dist < best_dist
             THEN BestIdx(zones_sorted, used, target, idx + 1, dist, idx)
             ELSE BestIdx(zones_sorted, used, target, idx + 1, best_dist, best_idx)

\* The outer loop over targets, i = 0 .. max_zones - 1.
RECURSIVE SelectLoop(_, _, _, _, _, _, _)
SelectLoop(zones_sorted, max_zones, key_min, key_max, i, used, selected) ==
    IF i >= max_zones THEN selected
    ELSE LET target == Target(i, max_zones, key_min, key_max)
             best == BestIdx(zones_sorted, used, target, 1, 0, 0)
         IN  IF best # 0
             THEN SelectLoop(zones_sorted, max_zones, key_min, key_max, i + 1,
                             used \cup {best}, Append(selected, zones_sorted[best]))
             ELSE SelectLoop(zones_sorted, max_zones, key_min, key_max, i + 1,
                             used, selected)

\* select_zones_for_88_keys: what it returns, or the exception it raises.
\* The targets are computed before any zone is considered, and dividing by
\* max_zones - 1 == 0 raises ZeroDivisionError.
select_zones_for_88_keys(zones, max_zones, key_min, key_max) ==
    IF Len(zones) <= max_zones
    THEN [raised |-> "no", value |-> zones]
    ELSE IF max_zones - 1 = 0
    THEN [raised |-> "ZeroDivisionError", value |-> <<>>]
    ELSE [raised |-> "no",
          value |-> SortedByRoot(SelectLoop(SortedByRoot(zones), max_zones,
                                            key_min, key_max, 0, {}, <<>>))]

\* AssignOne without the special case of the first zone.
AssignOne_NoFirstCase(roots, i, key_min, key_max) ==
    LET low_key == (roots[IF i = 1 THEN 1 ELSE i - 1] + roots[i]) \div 2 + 1
        high_key == IF i = Len(roots) THEN key_max
                    ELSE (roots[i] + roots[i + 1]) \div 2
    IN  [lokey |-> Max(key_min, Min(low_key, key_max)),
         hikey |-> Max(key_min, Min(high_key, key_max))]

\* assign_key_ranges: the bounds of zone i (1-based) of the sorted zones.
AssignOne(roots, i, key_min, key_max) ==
    LET low_key == IF i = 1 THEN key_min
                   ELSE (roots[i - 1] + roots[i]) \div 2 + 1
        high_key == IF i = Len(roots) THEN key_max
                    ELSE (roots[i] + roots[i + 1]) \div 2
    IN  [lokey |-> Max(key_min, Min(low_key, key_max)),
         hikey |-> Max(key_min, Min(high_key, key_max))]

assign_key_ranges(zones, key_min, key_max) ==
    LET zones_sorted == SortedByRoot(zones)
        roots == [i \in DOMAIN zones_sorted |-> zones_sorted[i].root_key]
    IN  [i \in DOMAIN zones_sorted |->
            [zones_sorted[i] EXCEPT !.lokey = AssignOne(roots, i, key_min, key_max).lokey,
                                    !.hikey = AssignOne(roots, i, key_min, key_max).hikey]]

----------------------------------------------------------------------------
\* The selector called on its own with arbitrary small arguments.

MaxSelLen == 4      \* longest zone list
MaxSelKey == 4      \* root keys and key bounds are drawn from 0 .. MaxSelKey
MaxSelZones == 3    \* largest max_zones

NoKey == -1         \* lokey / hikey of a zone before assign_key_ranges

SelZone(i, root) == [id |-> i, root_key |-> root, lokey |-> NoKey, hikey |-> NoKey]

SelZoneLists ==
    UNION {{[i \in 1..n |-> SelZone(i, roots[i])] : roots \in [1..n -> 0..MaxSelKey]}
           : n \in 0..MaxSelLen}

SelInit ==
    /\ sel_zones \in SelZoneLists
    /\ sel_max_zones \in 1..MaxSelZones
    /\ sel_key_min \in {0, 1}
    /\ sel_key_max \in {MaxSelKey - 1, MaxSelKey}
    /\ sel_call = "none"
    /\ sel_ret = [raised |-> "no", value |-> <<>>]

SelIdle ==
    /\ sel_zones = <<>>
    /\ sel_max_zones = 0
    /\ sel_key_min = 0
    /\ sel_key_max = 0
    /\ sel_call = "none"
    /\ sel_ret = [raised |-> "no", value |-> <<>>]

CallSelect ==
    /\ sel_call = "none"
    /\ sel_call' = "select"
    /\ sel_ret' = select_zones_for_88_keys(sel_zones, sel_max_zones, sel_key_min, sel_key_max)
    /\ UNCHANGED <<sel_zones, sel_max_zones, sel_key_min, sel_key_max>>
    /\ UNCHANGED <<convVars, drumVars, auVars, lpVars, envVars, eoVars, rdVars, deVars, fxVars, zcVars, rgVars, nmVars>>

\* assign_key_ranges writes lokey / hikey into the zone objects of the list
\* it was given and returns them in sorted order.
CallAssign ==
    /\ sel_call = "none"
    /\ sel_call' = "assign"
    /\ LET out == assign_key_ranges(sel_zones, sel_key_min, sel_key_max)
       IN  /\ sel_ret' = [raised |-> "no", value |-> out]
           /\ sel_zones' = [i \in DOMAIN sel_zones |->
                              CHOOSE z \in Range(out) : z.id = sel_zones[i].id]
    /\ UNCHANGED <<sel_max_zones, sel_key_min, sel_key_max>>
    /\ UNCHANGED <<convVars, drumVars, auVars, lpVars, envVars, eoVars, rdVars, deVars, fxVars, zcVars, rgVars, nmVars>>

SelNext == CallSelect \/ CallAssign

----------------------------------------------------------------------------
\* audio.py
\*
\* A resampler result is [raised, exact, len, value]: value holds the samples
\* when exact is TRUE; the band-limited paths are modelled by the number of
\* samples they return (len) and by the exception numpy raises.  Quotients
\* of rates and positions are exact rationals.

Returned(samples) == [raised |-> "no", exact |-> TRUE, len |-> Len(samples), value |-> samples]
ReturnedLen(n) == [raised |-> "no", exact |-> FALSE, len |-> n, value |-> <<>>]
Raised(e) == [raised |-> e, exact |-> FALSE, len |-> 0, value |-> <<>>]

CeilDiv(a, b) == (a + b - 1) \div b

\* One output sample of resample_linear: i is the 0-based output index.
LinearSample(samples, src_rate, dst_rate, i) ==
    LET i0 == (i * src_rate) \div dst_rate
        r == (i * src_rate) % dst_rate
        i1 == Min(i0 + 1, Len(samples) - 1)
    IN  PyRound(samples[i0 + 1] * (dst_rate - r) + samples[i1 + 1] * r, dst_rate)

resample_linear(samples, src_rate, dst_rate) ==
    IF src_rate = dst_rate THEN samples
    ELSE LET out_len == (Len(samples) * dst_rate) \div src_rate
         IN  [k \in 1..out_len |-> LinearSample(samples, src_rate, dst_rate, k - 1)]

\* len(_fir_lowpass_kernel(num_taps, cutoff))
KernelLen(num_taps) == 2 * num_taps + 1

\* _resample_sinc_numpy.  np.convolve(arr, kernel, mode="same") refuses an
\* empty array and returns max(len(arr), len(kernel)) values, of which every
\* factor-th is kept.
_resample_sinc_numpy(samples, src_rate, dst_rate, num_taps) ==
    LET n_in == Len(samples)
    IN  IF src_rate > dst_rate /\ src_rate % dst_rate = 0
        THEN LET factor == src_rate \div dst_rate
                 filtered == Max(n_in, KernelLen(num_taps * factor))
             IN  IF n_in = 0 THEN Raised("ValueError")
                 ELSE ReturnedLen(CeilDiv(filtered, factor))
        ELSE ReturnedLen((n_in * dst_rate) \div src_rate)

\* _resample_sinc_pure: one output sample per i in range(0, n_in, factor) on
\* the fast path, out_len samples otherwise.
_resample_sinc_pure(samples, src_rate, dst_rate, num_taps) ==
    LET n_in == Len(samples)
    IN  IF src_rate > dst_rate /\ src_rate % dst_rate = 0
        THEN ReturnedLen(CeilDiv(n_in, src_rate \div dst_rate))
        ELSE ReturnedLen((n_in * dst_rate) \div src_rate)

\* resample_sinc without its src_rate == dst_rate shortcut.
resample_sinc_NoShortcut(samples, src_rate, dst_rate, num_taps, has_numpy) ==
    IF has_numpy THEN _resample_sinc_numpy(samples, src_rate, dst_rate, num_taps)
    ELSE _resample_sinc_pure(samples, src_rate, dst_rate, num_taps)

\* resample_sinc; has_numpy is _HAS_NUMPY, set when the module is imported.
resample_sinc(samples, src_rate, dst_rate, num_taps, has_numpy) ==
    IF src_rate = dst_rate THEN Returned(samples)
    ELSE IF has_numpy THEN _resample_sinc_numpy(samples, src_rate, dst_rate, num_taps)
    ELSE _resample_sinc_pure(samples, src_rate, dst_rate, num_taps)

----------------------------------------------------------------------------
\* converter.py: _resample_pcm

\* pcm[ch::channels], ch 0-based
ChannelData(pcm, ch, channels) ==
    [k \in 1..((Len(pcm) - ch + channels - 1) \div channels) |-> pcm[ch + (k - 1) * channels + 1]]

\* min(len(ch) for ch in resampled)
MinLen(seqs) ==
    CHOOSE n \in {Len(seqs[c]) : c \in DOMAIN seqs} : \A c \in DOMAIN seqs : n <= Len(seqs[c])

_resample_pcm(pcm, channels, src_rate, dst_rate) ==
    IF src_rate = dst_rate THEN pcm
    ELSE IF channels = 1 THEN resample_linear(pcm, src_rate, dst_rate)
    ELSE LET resampled == [c \in 1..channels |->
                             resample_linear(ChannelData(pcm, c - 1, channels),
                                             src_rate, dst_rate)]
             frames == MinLen(resampled)
         IN  [k \in 1..(frames * channels) |->
                resampled[((k - 1) % channels) + 1][((k - 1) \div channels) + 1]]

----------------------------------------------------------------------------
\* The loop-end offset.  loop_variants.py imports apply_loop_end_offset from
\* the converter; the clamp is the one the documentation and
\* tests/test_loop_offsets.py describe.

apply_loop_end_offset(loop_start, loop_end, framecount, offset) ==
    Max(loop_start + 1, Min(framecount, loop_end + offset))

\* The loop body of _apply_offset_to_patch writing loop_end + delta as it is.
OffsetRegion_NoClamp(region, delta) ==
    IF ~region.loop_enabled THEN region
    ELSE IF region.loop_end <= region.loop_start \/ region.framecount <= 0 THEN region
    ELSE IF delta # 0
         THEN [region EXCEPT !.loop_end = region.loop_end + delta]
         ELSE region

\* The loop body of _apply_offset_to_patch for one region of the copy.
OffsetRegion(region, delta) ==
    IF ~region.loop_enabled THEN region
    ELSE IF region.loop_end <= region.loop_start \/ region.framecount <= 0 THEN region
    ELSE IF delta # 0
         THEN [region EXCEPT !.loop_end =
                  apply_loop_end_offset(region.loop_start, region.loop_end,
                                        region.framecount, delta)]
         ELSE region

\* _apply_offset_to_patch works on a deep copy: the result is a new patch.
_apply_offset_to_patch(patch, delta, offset_label) ==
    [name |-> patch.name \o <<" offset ", offset_label>>,
     regions |-> [k \in DOMAIN patch.regions |-> OffsetRegion(patch.regions[k], delta)]]

\* f"{offset:+d}" if offset else "0"
OffsetLabel(offset) ==
    IF offset = 0 THEN "0"
    ELSE IF offset > 0 THEN "+" \o ToString(offset)
    ELSE ToString(offset)

make_offset_variants(patch, offsets, base_offset) ==
    [k \in DOMAIN offsets |->
        <<offsets[k],
          _apply_offset_to_patch(patch, offsets[k] - base_offset, OffsetLabel(offsets[k]))>>]

----------------------------------------------------------------------------
\* converter.py: scale_attack_seconds
\*
\* Times are whole ticks of 1/Units of a second.  The logarithm is computed in
\* fixed point, 20 fractional bits for the mantissa and 16 for the result;
\* over the inputs below the code it yields is within one of the code the
\* floating-point computation yields.

Units == 10000
ATTACK_MIN_SECONDS == 111           \* 0.0111 s
ATTACK_CURVE_B == 10386             \* 10.386, in thousandths
ATTACK_MAX_SECONDS == 3600000       \* 360.0 s
LN2 == 45426                        \* ln 2, in 1/65536

\* the largest e with den * 2^e <= num, for num >= den
RECURSIVE FloorLog2(_, _)
FloorLog2(num, den) ==
    IF 2 * den > num THEN 0 ELSE 1 + FloorLog2(num, 2 * den)

\* m * m for m in [1, 2) with 20 fractional bits, multiplied in halves
FixSquare(m) ==
    LET a == m \div 1024
        b == m % 1024
    IN  a * a + ((2 * a * b + ((b * b) \div 1024)) \div 1024)

\* the fractional bits of log2(m), one per squaring
RECURSIVE Log2Frac(_, _, _)
Log2Frac(m, bits, acc) ==
    IF bits = 0 THEN acc
    ELSE LET sq == FixSquare(m)
         IN  IF sq >= 2097152 THEN Log2Frac(sq \div 2, bits - 1, 2 * acc + 1)
             ELSE Log2Frac(sq, bits - 1, 2 * acc)

\* math.log(num / den) in 1/65536, for den <= num < den * 2^16
Log16(num, den) ==
    LET e == FloorLog2(num, den)
        m == (num * 2^(20 - e)) \div den
        log2 == e * 65536 + Log2Frac(m, 16, 0)
        h == log2 \div 256
        l == log2 % 256
    IN  (h * LN2 + ((l * LN2) \div 256)) \div 256

\* math.log(clipped / ATTACK_MIN_SECONDS) / ATTACK_CURVE_B, in 1/32768
AttackCurve(clipped) ==
    (Log16(clipped, ATTACK_MIN_SECONDS) * 1000 + ATTACK_CURVE_B) \div (2 * ATTACK_CURVE_B)

\* scale_attack_seconds without the upper clamp of x.
scale_attack_seconds_NoUpperClamp(seconds, max_seconds) ==
    IF seconds <= 0 THEN 0
    ELSE LET clipped == Min(seconds, max_seconds)
         IN  IF clipped <= ATTACK_MIN_SECONDS THEN 0
             ELSE PyRound(Max(0, AttackCurve(clipped)) * 32767, 32768)

scale_attack_seconds(seconds, max_seconds) ==
    IF seconds <= 0 THEN 0
    ELSE LET clipped == Min(seconds, max_seconds)
         IN  IF clipped <= ATTACK_MIN_SECONDS THEN 0
             ELSE LET x == Max(0, Min(32768, AttackCurve(clipped)))
                  IN  PyRound(x * 32767, 32768)

----------------------------------------------------------------------------
\* converter.py: timecents_to_seconds, centibels_to_level,
\* scale_release_seconds, _env_to_opxy
\*
\* Powers of two are computed in fixed point with 20 fractional bits from the
\* 16 roots 2^(1/2), 2^(1/4), ...  Times are truncated to whole ticks, and a
\* time above SecondsCap, which is above every max_seconds, is SecondsCap.

None == -999999                     \* an absent value
RELEASE_MAX_SECONDS == 300000       \* 30.0 s
SecondsCap == 4000000               \* 400 s
LOG2_10 == 217706                   \* log2(10), in 1/65536

\* 2^(2^-k) for k = 1 .. 16, in 1/2^20
Exp2Table ==
    <<1482910, 1246974, 1143480, 1095000, 1071537, 1059994, 1054270, 1051419,
      1049997, 1049286, 1048931, 1048753, 1048665, 1048620, 1048598, 1048587>>

\* x * y for x, y with 20 fractional bits, multiplied in halves
FixMul(x, y) ==
    LET a == x \div 1024
        b == x % 1024
        c == y \div 1024
        d == y % 1024
    IN  a * c + ((a * d + b * c + ((b * d) \div 1024)) \div 1024)

\* 2^(f / 65536) for f in 0 .. 65535, in 1/2^20: one factor per set bit of f
RECURSIVE Exp2Frac(_, _, _)
Exp2Frac(f, k, m) ==
    IF k > 16 THEN m
    ELSE IF (f \div 2^(16 - k)) % 2 = 1 THEN Exp2Frac(f, k + 1, FixMul(m, Exp2Table[k]))
    ELSE Exp2Frac(f, k + 1, m)

\* 2^(-t / 65536) in 1/32768, for t in 1/65536
Exp2Neg15(t) ==
    LET qi == t \div 65536
        fr == t % 65536
        m == IF fr = 0 THEN 2097152 ELSE Exp2Frac(65536 - fr, 1, 1048576)
    IN  IF qi >= 20 THEN 0
        ELSE IF qi >= -1 THEN (m \div 2^(qi + 1)) \div 32
        ELSE (m * 2^(-qi - 1)) \div 32

\* 2 ** (timecents / 1200.0), in ticks
timecents_to_seconds(timecents) ==
    LET q == timecents \div 1200
        r == timecents % 1200
        m16 == Exp2Frac((r * 65536) \div 1200, 1, 1048576) \div 16
    IN  IF q >= 9 THEN SecondsCap
        ELSE IF q < -14 THEN 0
        ELSE Min(SecondsCap, (m16 * Units) \div 2^(16 - q))

\* math.pow(10.0, -centibels / 200.0), in 1/32768; below 10^-5 it is 0
centibels_to_level(centibels) ==
    LET cb == IF centibels < 0 THEN 0 ELSE centibels
    IN  IF cb >= 1000 THEN 0
        ELSE Exp2Neg15((cb * LOG2_10) \div 200)

\* log2(n) in 1/65536, for an integer n >= 1
Log2Int(n) ==
    LET e == FloorLog2(n, 1)
        m == IF e <= 20 THEN n * 2^(20 - e) ELSE n \div 2^(e - 20)
    IN  e * 65536 + Log2Frac(m, 16, 0)

\* ratio ** (1.0 / 3.0) for ratio = num / den, in 1/32768
CubeRoot15(num, den) == Exp2Neg15((Log2Int(den) - Log2Int(num)) \div 3)

\* scale_release_seconds without min(seconds, max_seconds).
scale_release_seconds_NoClip(seconds, max_seconds) ==
    IF seconds <= 0 THEN 32767
    ELSE PyRound((32768 - CubeRoot15(seconds, max_seconds)) * 32767, 32768)

scale_release_seconds(seconds, max_seconds) ==
    IF seconds <= 0 THEN 32767
    ELSE LET clipped == Min(seconds, max_seconds)
         IN  PyRound((32768 - CubeRoot15(clipped, max_seconds)) * 32767, 32768)

\* timecents_to_seconds(tc) if tc is not None else 0.0
StageSeconds(tc) == IF tc # None THEN timecents_to_seconds(tc) ELSE 0

_env_to_opxy(env) ==
    LET delay_sec == StageSeconds(env.delay_tc)
        attack_sec == StageSeconds(env.attack_tc)
        hold_sec == StageSeconds(env.hold_tc)
        decay_sec == StageSeconds(env.decay_tc)
        release_sec == StageSeconds(env.release_tc)
        level == IF env.sustain_cb = None THEN 32768
                 ELSE centibels_to_level(env.sustain_cb)
        sustain_level == Max(0, Min(32768, level))
        attack_total == delay_sec + attack_sec
        decay_total == hold_sec + decay_sec
    IN  [attack |-> scale_attack_seconds(attack_total, ATTACK_MAX_SECONDS),
         decay |-> scale_attack_seconds(decay_total, ATTACK_MAX_SECONDS),
         sustain |-> PyRound(sustain_level * 32767, 32768),
         release |-> scale_release_seconds(release_sec, RELEASE_MAX_SECONDS)]

----------------------------------------------------------------------------
\* sf2_reader.py: extract_presets
\*
\* A bank is [presets, instruments, samples].  A bag is the function from the
\* names of the generators it holds to their amounts; an optional bag (the
\* global bag remembered so far, or None) is a sequence of at most one bag.
\* A sample holds its decoded frames; the sample cache returns what decoding
\* returns and is left out.

\* the names of the terminal records; a name is a sequence of characters
EOP == <<"E", "O", "P">>
EOI == <<"E", "O", "I">>
EOS == <<"E", "O", "S">>

NoRange == <<>>                     \* _get_range returning None
FullRange == <<0, 127>>

HasGen(bag, oper) == oper \in DOMAIN bag

_get_range(optbag, oper) ==
    IF optbag = <<>> THEN NoRange
    ELSE IF ~HasGen(optbag[1], oper) THEN NoRange
    ELSE optbag[1][oper]

\* a or b, for ranges
OrRange(a, b) == IF a # NoRange THEN a ELSE b

RECURSIVE _sum_short(_, _)
_sum_short(bags, oper) ==
    IF bags = <<>> THEN [total |-> 0, present |-> FALSE]
    ELSE LET rest == _sum_short(Tail(bags), oper)
         IN  IF HasGen(Head(bags), oper)
             THEN [total |-> Head(bags)[oper] + rest.total, present |-> TRUE]
             ELSE rest

\* _sum_word adds gen.word where _sum_short adds gen.short
_sum_word(bags, oper) == _sum_short(bags, oper)

RECURSIVE _first_word(_, _)
_first_word(bags, oper) ==
    IF bags = <<>> THEN None
    ELSE IF HasGen(Head(bags), oper) THEN Head(bags)[oper]
    ELSE _first_word(Tail(bags), oper)

RECURSIVE _sum_offset(_, _, _)
_sum_offset(bags, oper, coarse_oper) ==
    IF bags = <<>> THEN 0
    ELSE (IF HasGen(Head(bags), oper) THEN Head(bags)[oper] ELSE 0)
         + (IF HasGen(Head(bags), coarse_oper) THEN Head(bags)[coarse_oper] * 32768 ELSE 0)
         + _sum_offset(Tail(bags), oper, coarse_oper)

\* (a variant that takes the preset-level range when there is one)
_intersect_ranges_PresetFirst(a, b) == IF a # NoRange THEN a ELSE b

_intersect_ranges(a, b) ==
    IF a = NoRange /\ b = NoRange THEN NoRange
    ELSE IF a = NoRange THEN b
    ELSE IF b = NoRange THEN a
    ELSE <<Max(a[1], b[1]), Min(a[2], b[2])>>

\* sf2.samples[idx] and sf2.instruments[idx], idx counted from 0
InList(list, idx) == idx + 1 \in DOMAIN list

SamplePair(sample, pcm, channels) ==
    [pcm |-> pcm, rate |-> sample.sample_rate, channels |-> channels,
     loop_start |-> sample.start_loop, loop_end |-> sample.end_loop,
     pitch_correction |-> sample.pitch_correction]

\* the frames of two channels interleaved, as many as the shorter has
Interleave(left, right) ==
    [k \in 1..(2 * Min(Len(left), Len(right))) |->
        IF k % 2 = 1 THEN left[(k + 1) \div 2] ELSE right[k \div 2]]

\* _get_sample_pair: <<>> for None, else the pair.  A stereo sample whose
\* link names no sample is kept as mono.
_get_sample_pair(sf2, sample) ==
    IF sample.name = EOS THEN <<>>
    ELSE IF sample.is_mono THEN <<SamplePair(sample, sample.pcm, 1)>>
    ELSE IF ~InList(sf2.samples, sample.sample_link)
         THEN <<SamplePair(sample, sample.pcm, 1)>>
    ELSE <<SamplePair(sample,
                      Interleave(sample.pcm, sf2.samples[sample.sample_link + 1].pcm), 2)>>

\* the first override among inst_bag, instrument_global, bag, preset_global
RootOverride(candidates) == _first_word(candidates, "OPER_OVERRIDING_ROOT_KEY")

\* pcm[a:b] for 0 <= a
Slice(pcm, a, b) ==
    LET hi == Min(Len(pcm), b)
    IN  IF hi <= a THEN <<>> ELSE [k \in 1..(hi - a) |-> pcm[a + k]]

\* one envelope of the zone dict: kind is "VOL" or "MOD"
OptTotal(s) == IF s.present THEN s.total ELSE None
ZoneEnv(bags, kind) ==
    [delay_tc |-> OptTotal(_sum_short(bags, "OPER_DELAY_" \o kind \o "_ENV")),
     attack_tc |-> OptTotal(_sum_short(bags, "OPER_ATTACK_" \o kind \o "_ENV")),
     hold_tc |-> OptTotal(_sum_short(bags, "OPER_HOLD_" \o kind \o "_ENV")),
     decay_tc |-> OptTotal(_sum_short(bags, "OPER_DECAY_" \o kind \o "_ENV")),
     sustain_cb |-> OptTotal(_sum_word(bags, "OPER_SUSTAIN_" \o kind \o "_ENV")),
     release_tc |-> OptTotal(_sum_short(bags, "OPER_RELEASE_" \o kind \o "_ENV")),
     present |-> \E field \in {"DELAY", "ATTACK", "HOLD", "DECAY", "SUSTAIN", "RELEASE"} :
                    _sum_short(bags, "OPER_" \o field \o "_" \o kind \o "_ENV").present]

\* chorus and reverb sends in tenths of a percent, clamped to 0 .. 100 %
ZoneFx(bags) ==
    LET chorus == _sum_word(bags, "OPER_CHORUS_EFFECTS_SEND")
        reverb == _sum_word(bags, "OPER_REVERB_EFFECTS_SEND")
    IN  [chorus |-> Min(1000, Max(0, chorus.total)),
         reverb |-> Min(1000, Max(0, reverb.total)),
         present |-> chorus.present \/ reverb.present]

\* bag-local value, else the level's global value (lines 256-261, 264-269)
LevelRange(local, global, oper) ==
    OrRange(_get_range(<<local>>, oper), _get_range(global, oper))

\* A skip record of parse_log["skipped_zones"].  c.at is the place of the
\* bag pair in the bank, <<preset, preset bag, instrument bag>>, kept with a
\* zone and with a skip record to tell them apart (it is no field of the
\* dicts).
SkipOf(c, fields) ==
    [kind |-> "skip", warnings |-> c.warnings,
     skip |-> [at |-> c.at, preset |-> c.preset, instrument |-> c.instrument,
               sample |-> c.sample] @@ fields]

\* (a variant that leaves the loop points of an enabled loop as they are)
LoopFields_NoClamp(loop_start, loop_end, sample_mode, frame_count) ==
    [loop_start |-> loop_start, loop_end |-> loop_end,
     loop_enabled |-> loop_start < loop_end /\ sample_mode # 0,
     loop_on_release |-> loop_start < loop_end /\ (sample_mode \div 2) % 2 = 1]

\* lines 358-371: the loop points, clamped into the trimmed sample when the
\* loop is enabled
LoopFields(loop_start, loop_end, sample_mode, frame_count) ==
    IF loop_start < loop_end /\ sample_mode # 0
    THEN [loop_start |-> Max(0, Min(loop_start, frame_count - 1)),
          loop_end |-> Max(Max(0, Min(loop_start, frame_count - 1)) + 1,
                           Min(loop_end, frame_count)),
          loop_enabled |-> TRUE,
          loop_on_release |-> (sample_mode \div 2) % 2 = 1]
    ELSE [loop_start |-> loop_start, loop_end |-> loop_end,
          loop_enabled |-> FALSE, loop_on_release |-> FALSE]

\* sample_mode of lines 358-363
SampleMode(candidates) ==
    IF _first_word(candidates, "OPER_SAMPLE_MODES") = None THEN 0
    ELSE _first_word(candidates, "OPER_SAMPLE_MODES")

\* exclusive_class of lines 389 and 449
ExclusiveClass(bags) ==
    IF _first_word(bags, "OPER_EXCLUSIVE_CLASS") # None
    THEN _first_word(bags, "OPER_EXCLUSIVE_CLASS")
    ELSE 0

\* lines 391-451: the zone dict
ZoneDict(c, loop) ==
    [kind |-> "zone", warnings |-> c.warnings,
     zone |-> [at |-> c.at,
               preset |-> c.preset,
               instrument |-> c.instrument,
               root_key |-> c.root_key,
               key_range |-> c.key_range,
               vel_range |-> c.vel_range,
               sample |-> [name |-> c.sample, data |-> c.pcm,
                           rate |-> c.pair.rate, channels |-> c.pair.channels],
               loop_start |-> loop.loop_start,
               loop_end |-> loop.loop_end,
               loop_enabled |-> loop.loop_enabled,
               loop_on_release |-> loop.loop_on_release,
               amp_env |-> ZoneEnv(c.bags, "VOL"),
               mod_env |-> ZoneEnv(c.bags, "MOD"),
               fx_send |-> ZoneFx(c.bags),
               exclusive_class |-> ExclusiveClass(c.bags)]]

\* lines 341-371
ZoneLoop(c) ==
    ZoneDict(c, LoopFields(
        c.pair.loop_start
            + _sum_offset(c.bags, "OPER_START_LOOP_ADDR_OFFSET",
                          "OPER_START_LOOP_ADDR_COARSE_OFFSET") - c.start_frame,
        c.pair.loop_end
            + _sum_offset(c.bags, "OPER_END_LOOP_ADDR_OFFSET",
                          "OPER_END_LOOP_ADDR_COARSE_OFFSET") - c.start_frame,
        SampleMode(c.candidates),
        Len(c.pcm) \div c.pair.channels))

\* lines 344-356
ZoneCut(c, start_frame, pcm) ==
    IF Len(pcm) \div c.pair.channels <= 0
    THEN SkipOf(c, [reason |-> "empty_sample"])
    ELSE ZoneLoop(c @@ [start_frame |-> start_frame, pcm |-> pcm])

\* lines 325-327
StartFrame(start_offset) == Max(0, start_offset)
EndFrame(start_frame, total_frames, end_offset) ==
    Max(start_frame + 1, Min(total_frames, total_frames + end_offset))

\* lines 321-339
ZoneWindow(c, start_offset, end_offset, total_frames) ==
    IF StartFrame(start_offset) >= total_frames
    THEN SkipOf(c, [reason |-> "start_offset_oob", start_offset |-> start_offset,
                    frames |-> total_frames])
    ELSE ZoneCut(c, StartFrame(start_offset),
                 Slice(c.pair.pcm, StartFrame(start_offset) * c.pair.channels,
                       EndFrame(StartFrame(start_offset), total_frames, end_offset)
                           * c.pair.channels))

\* lines 312-323
ZoneTrim(c) ==
    ZoneWindow(c,
               _sum_offset(c.bags, "OPER_START_ADDR_OFFSET", "OPER_START_ADDR_COARSE_OFFSET"),
               _sum_offset(c.bags, "OPER_END_ADDR_OFFSET", "OPER_END_ADDR_COARSE_OFFSET"),
               Len(c.pair.pcm) \div c.pair.channels)

\* lines 298-310
ZoneTuned(c, root_key, coarse, fine) ==
    ZoneTrim([root_key |-> Max(0, Min(127, root_key + coarse + PyRound(fine, 100))),
              warnings |-> IF fine % 100 # 0
                           THEN <<[preset |-> c.preset, instrument |-> c.instrument,
                                   sample |-> c.sample, reason |-> "fine_tune_rounded",
                                   fine_cents |-> fine]>>
                           ELSE <<>>] @@ c)

\* lines 285-298
ZoneTune(c) ==
    ZoneTuned(c,
              IF RootOverride(c.candidates) # None THEN RootOverride(c.candidates)
              ELSE c.original_pitch,
              _sum_short(c.bags, "OPER_COARSE_TUNE").total,
              _sum_short(c.bags, "OPER_FINE_TUNE").total + c.pair.pitch_correction)

\* lines 272-283
ZoneRangeCheck(c, key_range, vel_range) ==
    IF key_range[1] > key_range[2] \/ vel_range[1] > vel_range[2]
    THEN SkipOf(c, [reason |-> "invalid_range", key_range |-> key_range,
                    vel_range |-> vel_range])
    ELSE ZoneTune(c @@ [key_range |-> key_range, vel_range |-> vel_range])

\* lines 256-270
ZoneRanges(c) ==
    ZoneRangeCheck(c,
        OrRange(_intersect_ranges(LevelRange(c.bag, c.pg, "OPER_KEY_RANGE"),
                                  LevelRange(c.inst_bag, c.ig, "OPER_KEY_RANGE")),
                FullRange),
        OrRange(_intersect_ranges(LevelRange(c.bag, c.pg, "OPER_VEL_RANGE"),
                                  LevelRange(c.inst_bag, c.ig, "OPER_VEL_RANGE")),
                FullRange))

\* the bags of line 254, preset_global first
BagsOf(pg, bag, ig, inst_bag) == pg \o <<bag>> \o ig \o <<inst_bag>>

\* the candidates of lines 286 and 359, inst_bag first
CandidatesOf(pg, bag, ig, inst_bag) == <<inst_bag>> \o ig \o <<bag>> \o pg

\* The body of "for inst_bag in instrument.bags" for a bag whose sample
\* reference resolves to sample_pair (lines 254-451).  pg and ig are the
\* optional global bags, <<>> for None.  The result is
\* [kind, zone or skip, warnings].
ZoneOfPair(preset, instrument, sample, sample_pair, pg, bag, ig, inst_bag, at) ==
    ZoneRanges([preset |-> preset.name, instrument |-> instrument.name,
                sample |-> sample.name, original_pitch |-> sample.original_pitch,
                pair |-> sample_pair, at |-> at, warnings |-> <<>>,
                pg |-> pg, bag |-> bag, ig |-> ig, inst_bag |-> inst_bag,
                bags |-> BagsOf(pg, bag, ig, inst_bag),
                candidates |-> CandidatesOf(pg, bag, ig, inst_bag)])

\* What a walk has gathered: the zones of the preset, the entries appended
\* to parse_log, and the exception raised ("no" for none).
NoWalk == [zones |-> <<>>, skipped |-> <<>>, warnings |-> <<>>, raised |-> "no"]

\* preset_zones.append or parse_log[...].append of one bag pair
Gather(acc, r) ==
    IF r.kind = "zone"
    THEN [acc EXCEPT !.warnings = @ \o r.warnings, !.zones = Append(@, r.zone)]
    ELSE [acc EXCEPT !.warnings = @ \o r.warnings, !.skipped = Append(@, r.skip)]

\* lines 242-252 and on: the sample of a sample bag
RECURSIVE InstBagsLoop(_, _, _, _, _, _, _, _, _)
SampleBag(sf2, preset, instrument, pg, bag, at, ib, ig, acc, sample, sample_pair) ==
    IF sample_pair = <<>>
    THEN InstBagsLoop(sf2, preset, instrument, pg, bag, at, ib + 1, ig,
           [acc EXCEPT !.skipped = Append(@,
              [at |-> <<at[1], at[2], ib>>, preset |-> preset.name,
               instrument |-> instrument.name, reason |-> "missing_sample"])])
    ELSE InstBagsLoop(sf2, preset, instrument, pg, bag, at, ib + 1, ig,
           Gather(acc, ZoneOfPair(preset, instrument, sample, sample_pair[1],
                                  pg, bag, ig, instrument.bags[ib], <<at[1], at[2], ib>>)))

\* (a variant in which the last bag of the instrument without a sample
\* reference, wherever it stands, is instrument_global)
InstBagsLoop_AnyGlobal(sf2, preset, instrument, pg, bag, at, ib, ig, acc) ==
    IF ib > Len(instrument.bags) \/ acc.raised # "no" THEN acc
    ELSE IF ~HasGen(instrument.bags[ib], "OPER_SAMPLE_ID")
    THEN InstBagsLoop(sf2, preset, instrument, pg, bag, at, ib + 1, ig, acc)
    ELSE IF ~InList(sf2.samples, instrument.bags[ib]["OPER_SAMPLE_ID"])
    THEN [acc EXCEPT !.raised = "IndexError"]
    ELSE SampleBag(sf2, preset, instrument, pg, bag, at, ib,
                   IF \E k \in DOMAIN instrument.bags : ~HasGen(instrument.bags[k], "OPER_SAMPLE_ID")
                   THEN <<instrument.bags[CHOOSE k \in DOMAIN instrument.bags :
                             /\ ~HasGen(instrument.bags[k], "OPER_SAMPLE_ID")
                             /\ \A j \in DOMAIN instrument.bags :
                                   ~HasGen(instrument.bags[j], "OPER_SAMPLE_ID") => j <= k]>>
                   ELSE <<>>,
                   acc,
                   sf2.samples[instrument.bags[ib]["OPER_SAMPLE_ID"] + 1],
                   _get_sample_pair(sf2, sf2.samples[instrument.bags[ib]["OPER_SAMPLE_ID"] + 1]))

\* "for inst_bag in instrument.bags", from bag ib on; ig is instrument_global.
InstBagsLoop(sf2, preset, instrument, pg, bag, at, ib, ig, acc) ==
    IF ib > Len(instrument.bags) \/ acc.raised # "no" THEN acc
    ELSE IF ~HasGen(instrument.bags[ib], "OPER_SAMPLE_ID")
    THEN InstBagsLoop(sf2, preset, instrument, pg, bag, at, ib + 1,
                      <<instrument.bags[ib]>>, acc)
    ELSE IF ~InList(sf2.samples, instrument.bags[ib]["OPER_SAMPLE_ID"])
    THEN [acc EXCEPT !.raised = "IndexError"]
    ELSE SampleBag(sf2, preset, instrument, pg, bag, at, ib, ig, acc,
                   sf2.samples[instrument.bags[ib]["OPER_SAMPLE_ID"] + 1],
                   _get_sample_pair(sf2, sf2.samples[instrument.bags[ib]["OPER_SAMPLE_ID"] + 1]))

\* "for bag in preset.bags", from bag b on; pg is preset_global.  p is the
\* place of the preset in sf2.presets.
RECURSIVE PresetBagsLoop(_, _, _, _, _, _)
PresetBagsLoop(sf2, preset, p, b, pg, acc) ==
    IF b > Len(preset.bags) \/ acc.raised # "no" THEN acc
    ELSE IF ~HasGen(preset.bags[b], "OPER_INSTRUMENT")
    THEN PresetBagsLoop(sf2, preset, p, b + 1, <<preset.bags[b]>>, acc)
    ELSE IF ~InList(sf2.instruments, preset.bags[b]["OPER_INSTRUMENT"])
    THEN [acc EXCEPT !.raised = "IndexError"]
    ELSE IF sf2.instruments[preset.bags[b]["OPER_INSTRUMENT"] + 1].name = EOI
    THEN PresetBagsLoop(sf2, preset, p, b + 1, pg, acc)
    ELSE PresetBagsLoop(sf2, preset, p, b + 1, pg,
            InstBagsLoop(sf2, preset, sf2.instruments[preset.bags[b]["OPER_INSTRUMENT"] + 1],
                         pg, preset.bags[b], <<p, b, 0>>, 1, <<>>, acc))

\* str.lower() of one character
UpperCase == <<"A", "B", "C", "D", "E", "F", "G", "H", "I", "J", "K", "L", "M",
               "N", "O", "P", "Q", "R", "S", "T", "U", "V", "W", "X", "Y", "Z">>
LowerCase == <<"a", "b", "c", "d", "e", "f", "g", "h", "i", "j", "k", "l", "m",
               "n", "o", "p", "q", "r", "s", "t", "u", "v", "w", "x", "y", "z">>
LowerChar(c) ==
    IF \E i \in DOMAIN UpperCase : UpperCase[i] = c
    THEN LowerCase[CHOOSE i \in DOMAIN UpperCase : UpperCase[i] = c]
    ELSE c
Lower(name) == [i \in DOMAIN name |-> LowerChar(name[i])]

DRUM_NAME_TOKENS ==
    {<<"d", "r", "u", "m">>, <<"d", "r", "u", "m", "s">>, <<"k", "i", "t">>,
     <<"p", "e", "r", "c">>, <<"p", "e", "r", "c", "u", "s", "s", "i", "o", "n">>,
     <<"b", "e", "a", "t">>}

\* token in name
Contains(name, token) ==
    \E i \in 0..(Len(name) - Len(token)) : SubSeq(name, i + 1, i + Len(token)) = token

HasDrumToken(name) == \E token \in DRUM_NAME_TOKENS : Contains(Lower(name), token)

\* (a variant that does not count the root keys)
SingleNoteZones_AnyRoots(zones) ==
    10 * Cardinality({i \in DOMAIN zones : zones[i].key_range[1] = zones[i].key_range[2]})
        >= 7 * Max(1, Len(zones))

\* lines 202-214: the share of single-note zones and the count of root keys
SingleNoteZones(zones) ==
    /\ 10 * Cardinality({i \in DOMAIN zones : zones[i].key_range[1] = zones[i].key_range[2]})
           >= 7 * Max(1, Len(zones))
    /\ Cardinality({zones[i].root_key : i \in DOMAIN zones}) >= Min(8, Len(zones))

\* _looks_like_drum: the trigger, "" for None
_looks_like_drum(preset_name, zones) ==
    IF HasDrumToken(preset_name) THEN "name"
    ELSE IF \E i \in DOMAIN zones : HasDrumToken(zones[i].instrument) THEN "instrument_name"
    ELSE IF zones = <<>> THEN ""
    ELSE IF SingleNoteZones(zones) THEN "single_note_zones"
    ELSE ""

\* lines 453-472 for a preset with zones
Classify(preset, p, out, walk, drum_reason) ==
    [presets |-> Append(out.presets,
                        [name |-> preset.name,
                         is_drum |-> preset.bank = 128 \/ drum_reason # "",
                         zones |-> walk.zones, at |-> p]),
     skipped_zones |-> walk.skipped,
     warnings |-> IF preset.bank # 128 /\ drum_reason # ""
                  THEN Append(walk.warnings,
                              [preset |-> preset.name, reason |-> "drum_heuristic",
                               detail |-> drum_reason])
                  ELSE walk.warnings,
     raised |-> "no"]

\* the end of the body of "for preset in sf2.presets", after the bags
AfterWalk(preset, p, out, walk) ==
    IF walk.raised # "no" THEN [out EXCEPT !.raised = walk.raised]
    ELSE IF walk.zones = <<>>
    THEN [out EXCEPT !.skipped_zones = walk.skipped, !.warnings = walk.warnings]
    ELSE Classify(preset, p, out, walk, _looks_like_drum(preset.name, walk.zones))

\* The body of "for preset in sf2.presets" for the preset at place p: out is
\* [presets, skipped_zones, warnings, raised].
ExtractPreset(sf2, p, out) ==
    IF sf2.presets[p].name = EOP THEN out
    ELSE AfterWalk(sf2.presets[p], p, out,
                   PresetBagsLoop(sf2, sf2.presets[p], p, 1, <<>>,
                                  [NoWalk EXCEPT !.skipped = out.skipped_zones,
                                                 !.warnings = out.warnings]))

----------------------------------------------------------------------------
\* converter.py: velocity matching and the drum velocity choice

\* _velocity_match: any(low <= vel <= high for vel in vels)
_velocity_match(vel_range, vels) ==
    \E i \in DOMAIN vels : vel_range[1] <= vels[i] /\ vels[i] <= vel_range[2]

NoBest == -1        \* best is None

\* _velocity_distance: the loop over vels, returning 0 at the first
\* velocity inside the range.
RECURSIVE VelocityDistanceLoop(_, _, _, _)
VelocityDistanceLoop(vel_range, vels, i, best) ==
    IF i > Len(vels) THEN (IF best # NoBest THEN best ELSE 999)
    ELSE LET vel == vels[i]
             dist == Min(Abs(vel - vel_range[1]), Abs(vel - vel_range[2]))
         IN  IF vel_range[1] <= vel /\ vel <= vel_range[2] THEN 0
             ELSE IF best = NoBest \/ dist < best
                  THEN VelocityDistanceLoop(vel_range, vels, i + 1, dist)
                  ELSE VelocityDistanceLoop(vel_range, vels, i + 1, best)

_velocity_distance(vel_range, vels) ==
    VelocityDistanceLoop(vel_range, vels, 1, NoBest)

\* The comparison key <= best_key in place of key < best_key.
TupleLess_OrEqual(a, b) ==
    \/ a[1] < b[1]
    \/ a[1] = b[1] /\ a[2] < b[2]
    \/ a[1] = b[1] /\ a[2] = b[2] /\ a[3] <= b[3]

\* Python's tuple comparison key < best_key on (dist, width, -low).
TupleLess(a, b) ==
    \/ a[1] < b[1]
    \/ a[1] = b[1] /\ a[2] < b[2]
    \/ a[1] = b[1] /\ a[2] = b[2] /\ a[3] < b[3]

DrumKey(zone, vels) ==
    <<_velocity_distance(zone.vel_range, vels),
      zone.vel_range[2] - zone.vel_range[1],
      -zone.vel_range[1]>>

\* grouped: the root keys in order of first appearance (dict insertion order).
RECURSIVE GroupRoots(_, _, _)
GroupRoots(zones, i, roots) ==
    IF i > Len(zones) THEN roots
    ELSE IF \E j \in DOMAIN roots : roots[j] = zones[i].root_key
         THEN GroupRoots(zones, i + 1, roots)
         ELSE GroupRoots(zones, i + 1, Append(roots, zones[i].root_key))

\* grouped[root]: the positions in zones of the zones with that root, in order.
RECURSIVE GroupOf(_, _, _, _)
GroupOf(zones, root, i, group) ==
    IF i > Len(zones) THEN group
    ELSE GroupOf(zones, root, i + 1,
                 IF zones[i].root_key = root THEN Append(group, i) ELSE group)

\* The loop "for zone in group" choosing best_zone: a later zone replaces the
\* best only when its key is strictly smaller.
RECURSIVE BestZone(_, _, _, _, _)
BestZone(zones, group, vels, k, best) ==
    IF k > Len(group) THEN best
    ELSE IF best = 0 \/ TupleLess(DrumKey(zones[group[k]], vels),
                                  DrumKey(zones[best], vels))
         THEN BestZone(zones, group, vels, k + 1, group[k])
         ELSE BestZone(zones, group, vels, k + 1, best)

\* The identity of a zone object: the position of its preset in the bank and
\* its own position in the preset.
ZoneId(zone) == <<zone.owner, zone.id>>

\* _zone_descriptor; zone_id is not a key of the dictionary, it records which
\* zone object the entry was made from.
_zone_descriptor(zone) ==
    [preset |-> zone.preset, zone_id |-> ZoneId(zone),
     root_key |-> zone.root_key, vel_range |-> zone.vel_range]

\* {"reason": ..., "selected_vel_range": ..., **_zone_descriptor(zone)}
DrumDiscard(zone, best_zone) ==
    [reason |-> "drum_velocity_choice", selected_vel_range |-> best_zone.vel_range]
        @@ _zone_descriptor(zone)

RECURSIVE DrumDiscards(_, _, _, _, _)
DrumDiscards(zones, group, best, k, out) ==
    IF k > Len(group) THEN out
    ELSE DrumDiscards(zones, group, best, k + 1,
                      IF group[k] = best THEN out
                      ELSE Append(out, DrumDiscard(zones[group[k]], zones[best])))

\* The loop "for root, group in grouped.items()". r is the state threaded
\* through it: the selected positions and the log.
RECURSIVE DrumGroupsLoop(_, _, _, _, _, _)
DrumGroupsLoop(zones, vels, preset_name, roots, g, r) ==
    IF g > Len(roots) THEN r
    ELSE LET group == GroupOf(zones, roots[g], 1, <<>>)
             best == BestZone(zones, group, vels, 1, 0)
         IN  IF best # 0
             THEN DrumGroupsLoop(zones, vels, preset_name, roots, g + 1,
                    [selected |-> Append(r.selected, best),
                     log |-> [r.log EXCEPT !.discarded =
                                DrumDiscards(zones, group, best, 1, r.log.discarded)]])
             ELSE DrumGroupsLoop(zones, vels, preset_name, roots, g + 1,
                    [selected |-> r.selected,
                     log |-> [r.log EXCEPT !.warnings = Append(r.log.warnings,
                                [preset |-> preset_name, reason |-> "drum_velocity_missing",
                                 root_key |-> roots[g]])]])

\* _select_drum_zones_by_velocity: the positions (in zones) of the selected
\* zones, in the order selected, and the log after the call.
_select_drum_zones_by_velocity(zones, vels, preset_name, lg) ==
    DrumGroupsLoop(zones, vels, preset_name, GroupRoots(zones, 1, <<>>), 1,
                   [selected |-> <<>>, log |-> lg])

EmptyLog == [discarded |-> <<>>, presets |-> <<>>, warnings |-> <<>>]

----------------------------------------------------------------------------
\* converter.py: _choose_mode and _derive_envelope
\*
\* zone.get(key) is <<>> for None and <<env>> for an envelope dict; the
\* result of _derive_envelope is <<>> for None and <<envelope>> otherwise.

\* (opxy_env["attack"], opxy_env["decay"], opxy_env["sustain"], opxy_env["release"])
TupleOf(opxy_env) == <<opxy_env.attack, opxy_env.decay, opxy_env.sustain, opxy_env.release>>

\* not env or not env.get("present")
EnvMissing(zone, key) ==
    IF zone[key] = <<>> THEN TRUE ELSE ~zone[key][1].present

\* the tuples gathered by the loop over the zones, in the order of the zones
RECURSIVE EnvTuplesLoop(_, _)
EnvTuplesLoop(zones, key) ==
    IF zones = <<>> THEN <<>>
    ELSE IF EnvMissing(Head(zones), key) THEN EnvTuplesLoop(Tail(zones), key)
    ELSE <<TupleOf(_env_to_opxy(Head(zones)[key][1]))>> \o EnvTuplesLoop(Tail(zones), key)

MissingCount(zones, key) ==
    Cardinality({i \in DOMAIN zones : EnvMissing(zones[i], key)})

\* Counter(values)[v]
CountOf(values, v) == Cardinality({i \in DOMAIN values : values[i] = v})

\* (a variant in which the value met last wins a tie)
_choose_mode_LastWins(values) ==
    [choice |-> values[CHOOSE i \in DOMAIN values :
                    /\ \A j \in DOMAIN values :
                          CountOf(values, values[j]) <= CountOf(values, values[i])
                    /\ \A j \in DOMAIN values :
                          j > i => CountOf(values, values[j]) < CountOf(values, values[i])],
     variants |-> Cardinality({values[i] : i \in DOMAIN values})]

\* _choose_mode: a Counter keeps its keys in the order they were first met,
\* and most_common(1) returns the first key with the greatest count
_choose_mode(values) ==
    [choice |-> values[CHOOSE i \in DOMAIN values :
                    /\ \A j \in DOMAIN values :
                          CountOf(values, values[j]) <= CountOf(values, values[i])
                    /\ \A j \in DOMAIN values :
                          j < i => CountOf(values, values[j]) < CountOf(values, values[i])],
     variants |-> Cardinality({values[i] : i \in DOMAIN values})]

\* lines 107-115
DeriveChosen(mode, missing, key, preset_name, lg) ==
    [ret |-> <<[attack |-> mode.choice[1], decay |-> mode.choice[2],
                sustain |-> mode.choice[3], release |-> mode.choice[4]]>>,
     log |-> [lg EXCEPT !.warnings =
                @ \o (IF mode.variants > 1
                      THEN <<[preset |-> preset_name, reason |-> "mixed_envelope",
                              env |-> key, variants |-> mode.variants]>>
                      ELSE <<>>)
                  \o (IF missing > 0
                      THEN <<[preset |-> preset_name, reason |-> "missing_envelope_zones",
                              env |-> key, missing |-> missing]>>
                      ELSE <<>>)]]

\* lines 104-106
DeriveFrom(tuples, missing, key, preset_name, lg) ==
    IF tuples = <<>> THEN [ret |-> <<>>, log |-> lg]
    ELSE DeriveChosen(_choose_mode(tuples), missing, key, preset_name, lg)

_derive_envelope(zones, key, preset_name, lg) ==
    DeriveFrom(EnvTuplesLoop(zones, key), MissingCount(zones, key), key, preset_name, lg)

----------------------------------------------------------------------------
\* converter.py: map_fx_send and _derive_fx
\*
\* A percentage is a whole number of tenths of a percent, the unit of the
\* send generators: the reader divides the raw value by 10.0.
\* zone.get("fx_send") is <<>> for None and <<sends>> for a dict; the result
\* of _derive_fx is <<>> for None and <<sends>> otherwise.

PercentUnits == 10

\* int(round(max(0.0, min(100.0, percent)) / 100.0 * 32767))
map_fx_send(percent) ==
    PyRound(Max(0, Min(100 * PercentUnits, percent)) * 32767, 100 * PercentUnits)

\* fx = zone.get("fx_send") or {}; (fx.get("chorus", 0.0), fx.get("reverb", 0.0))
FxTuple(zone) ==
    IF zone.fx_send = <<>> THEN <<0, 0>>
    ELSE <<zone.fx_send[1].chorus, zone.fx_send[1].reverb>>

FxTuplesLoop(zones) == [i \in DOMAIN zones |-> FxTuple(zones[i])]

\* Counter(values).most_common(1)[0]: the first value met among those that
\* occur most often, and the number of times it occurs
most_common_1(values) ==
    LET i == CHOOSE i \in DOMAIN values :
                /\ \A j \in DOMAIN values :
                      CountOf(values, values[j]) <= CountOf(values, values[i])
                /\ \A j \in DOMAIN values :
                      j < i => CountOf(values, values[j]) < CountOf(values, values[i])
    IN  [key |-> values[i], count |-> CountOf(values, values[i])]

\* lines 128-138: "(chorus, reverb), variants = counts.most_common(1)[0]"
DeriveFxChosen(mc, preset_name, lg) ==
    [ret |-> <<[delay_send |-> map_fx_send(mc.key[1]),
                reverb_send |-> map_fx_send(mc.key[2]),
                chorus_percent |-> mc.key[1],
                reverb_percent |-> mc.key[2]]>>,
     log |-> IF mc.count > 1
             THEN [lg EXCEPT !.warnings = Append(@,
                      [preset |-> preset_name, reason |-> "mixed_fx_send",
                       variants |-> mc.count])]
             ELSE lg]

_derive_fx(zones, preset_name, lg) ==
    IF FxTuplesLoop(zones) = <<>> THEN [ret |-> <<>>, log |-> lg]
    ELSE DeriveFxChosen(most_common_1(FxTuplesLoop(zones)), preset_name, lg)

----------------------------------------------------------------------------
\* converter.py: zero-crossing snapping
\*
\* pcm is the interleaved sample list; frames are counted from 0.

ZERO_CROSS_THRESHOLD == 1
ZERO_CROSS_MAX_DISTANCE == 1000

\* the loop of _frame_amplitude over the channels of a frame, from sample i on
RECURSIVE FrameAmplitudeLoop(_, _, _, _)
FrameAmplitudeLoop(pcm, i, end, max_amp) ==
    IF i >= end THEN max_amp
    ELSE FrameAmplitudeLoop(pcm, i + 1, end,
            IF Abs(pcm[i + 1]) > max_amp THEN Abs(pcm[i + 1]) ELSE max_amp)

_frame_amplitude(pcm, frame_idx, channels) ==
    FrameAmplitudeLoop(pcm, frame_idx * channels, frame_idx * channels + channels, 0)

\* "for i in range(search_start, search_end + 1)", from frame i on: the
\* first frame quieter than every frame before it and at or below the
\* threshold ends the search.
RECURSIVE ZeroCrossingLoop(_, _, _, _, _, _, _)
ZeroCrossingLoop(pcm, channels, i, search_end, threshold, min_amplitude, best_position) ==
    IF i > search_end THEN best_position
    ELSE IF _frame_amplitude(pcm, i, channels) < min_amplitude
    THEN IF _frame_amplitude(pcm, i, channels) <= threshold THEN i
         ELSE ZeroCrossingLoop(pcm, channels, i + 1, search_end, threshold,
                               _frame_amplitude(pcm, i, channels), i)
    ELSE ZeroCrossingLoop(pcm, channels, i + 1, search_end, threshold,
                          min_amplitude, best_position)

\* lines 206-225, frame_position being clamped already
ZeroCrossingSearch(pcm, channels, frame_position, direction, max_distance, min_frame, max_frame, threshold) ==
    ZeroCrossingLoop(pcm, channels,
        IF direction = "forward" THEN frame_position
        ELSE Max(frame_position - max_distance, min_frame),
        IF direction = "backward" THEN frame_position
        ELSE Min(frame_position + max_distance, max_frame),
        threshold, _frame_amplitude(pcm, frame_position, channels), frame_position)

\* max_frame is None for the default
_find_nearest_zero_crossing(pcm, channels, frame_position, direction, max_distance, min_frame, max_frame, threshold) ==
    LET top == IF max_frame = None THEN Max(0, Len(pcm) \div channels - 1) ELSE max_frame
    IN  ZeroCrossingSearch(pcm, channels, Max(min_frame, Min(frame_position, top)),
                           direction, max_distance, min_frame, top, threshold)

\* lines 272-287
ZeroCrossingResult(original_start, original_end, adjusted_start, adjusted_end, preset_name, zone, lg) ==
    IF adjusted_end <= adjusted_start
    THEN [loop_start |-> original_start, loop_end |-> original_end, log |-> lg]
    ELSE [loop_start |-> adjusted_start, loop_end |-> adjusted_end,
          log |-> IF adjusted_start # original_start \/ adjusted_end # original_end
                  THEN [lg EXCEPT !.warnings = Append(@,
                          [preset |-> preset_name, reason |-> "loop_zero_crossing_adjusted",
                           original_start |-> original_start, original_end |-> original_end,
                           adjusted_start |-> adjusted_start, adjusted_end |-> adjusted_end]
                              @@ _zone_descriptor(zone))]
                  ELSE lg]

\* lines 261-270: the search for the end starts after the adjusted start
ZeroCrossingEnd(pcm, channels, loop_end, max_distance, threshold, max_frame, adjusted_start) ==
    _find_nearest_zero_crossing(pcm, channels, loop_end, "both", max_distance,
                                Min(adjusted_start + 1, max_frame), max_frame, threshold)

\* lines 251-287, loop_start and loop_end being clamped already
ZeroCrossingAdjust(pcm, channels, original_start, original_end, loop_start, loop_end, max_distance, threshold, max_frame, adjusted_start, preset_name, zone, lg) ==
    ZeroCrossingResult(original_start, original_end, adjusted_start,
                       ZeroCrossingEnd(pcm, channels, loop_end, max_distance, threshold,
                                       max_frame, adjusted_start),
                       preset_name, zone, lg)

\* lines 245-260
ZeroCrossingClamped(pcm, channels, original_start, original_end, loop_start, loop_end, max_distance, threshold, max_frame, preset_name, zone, lg) ==
    ZeroCrossingAdjust(pcm, channels, original_start, original_end, loop_start, loop_end,
                       max_distance, threshold, max_frame,
                       _find_nearest_zero_crossing(pcm, channels, loop_start, "both",
                                                   max_distance, 0, Max(loop_end - 1, 0),
                                                   threshold),
                       preset_name, zone, lg)

\* (a variant that keeps an adjusted pair whose end is not after its start)
_adjust_loop_zero_crossing_KeepCollapsed(pcm, channels, loop_start, loop_end, max_distance, threshold, preset_name, zone, lg) ==
    IF loop_end <= loop_start \/ Len(pcm) \div channels <= 1
    THEN [loop_start |-> loop_start, loop_end |-> loop_end, log |-> lg]
    ELSE LET max_frame == Len(pcm) \div channels - 1
             s == _find_nearest_zero_crossing(pcm, channels,
                      Max(0, Min(loop_start, max_frame)), "both", max_distance, 0,
                      Max(Max(Max(0, Min(loop_start, max_frame)) + 1,
                              Min(loop_end, max_frame)) - 1, 0), threshold)
         IN  [loop_start |-> s,
              loop_end |-> ZeroCrossingEnd(pcm, channels,
                               Max(Max(0, Min(loop_start, max_frame)) + 1,
                                   Min(loop_end, max_frame)),
                               max_distance, threshold, max_frame, s),
              log |-> lg]

_adjust_loop_zero_crossing(pcm, channels, loop_start, loop_end, max_distance, threshold, preset_name, zone, lg) ==
    IF loop_end <= loop_start \/ Len(pcm) \div channels <= 1
    THEN [loop_start |-> loop_start, loop_end |-> loop_end, log |-> lg]
    ELSE ZeroCrossingClamped(pcm, channels, loop_start, loop_end,
                             Max(0, Min(loop_start, Len(pcm) \div channels - 1)),
                             Max(Max(0, Min(loop_start, Len(pcm) \div channels - 1)) + 1,
                                 Min(loop_end, Len(pcm) \div channels - 1)),
                             max_distance, threshold, Len(pcm) \div channels - 1,
                             preset_name, zone, lg)

----------------------------------------------------------------------------
\* converter.py: the audio and the loop of a melodic region (lines 426-467)

\* lines 445-467: r is the audio after resampling and the scaled loop points
RegionLoop(r, loop_enabled, zero_crossing, max_distance, threshold, preset_name, zone, lg) ==
    IF ~loop_enabled
    THEN [loop_start |-> 0, loop_end |-> 0, loop_enabled |-> FALSE, log |-> lg]
    ELSE LET framecount == Len(r.pcm) \div r.channels
             loop_start == Max(0, Min(r.loop_start, framecount - 1))
             loop_end == Max(loop_start + 1, Min(r.loop_end, framecount))
         IN  IF loop_end <= loop_start
             THEN [loop_start |-> loop_start, loop_end |-> loop_end, loop_enabled |-> FALSE,
                   log |-> [lg EXCEPT !.warnings = Append(@,
                              [preset |-> preset_name, reason |-> "invalid_loop"]
                                  @@ _zone_descriptor(zone))]]
             ELSE IF zero_crossing
             THEN [loop_enabled |-> TRUE]
                     @@ _adjust_loop_zero_crossing(r.pcm, r.channels, loop_start, loop_end,
                                                   max_distance, threshold, preset_name,
                                                   zone, lg)
             ELSE [loop_start |-> loop_start, loop_end |-> loop_end, loop_enabled |-> TRUE,
                   log |-> lg]

\* lines 426-443: the samples, the rate and the loop points after resampling
RegionAudio(zone, resample, resample_rate) ==
    IF resample
    THEN [pcm |-> _resample_pcm(zone.sample.data, zone.sample.channels,
                                zone.sample.rate, resample_rate),
          channels |-> zone.sample.channels,
          sample_rate |-> resample_rate,
          loop_start |-> PyRound(zone.loop_start * resample_rate, zone.sample.rate),
          loop_end |-> PyRound(zone.loop_end * resample_rate, zone.sample.rate)]
    ELSE [pcm |-> zone.sample.data,
          channels |-> zone.sample.channels,
          sample_rate |-> zone.sample.rate,
          loop_start |-> zone.loop_start,
          loop_end |-> zone.loop_end]

\* the fields of the region that come from the audio and the loop
RegionSound(r, loop, loop_on_release) ==
    [sample_rate |-> r.sample_rate, channels |-> r.channels,
     framecount |-> Len(r.pcm) \div r.channels,
     loop_start |-> loop.loop_start, loop_end |-> loop.loop_end,
     loop_enabled |-> loop.loop_enabled, loop_on_release |-> loop_on_release]

\* lines 426-467 for one zone: the region's sound and the log
MelodicSound(zone, resample, resample_rate, zero_crossing, max_distance, threshold, preset_name, lg) ==
    LET loop == RegionLoop(RegionAudio(zone, resample, resample_rate), zone.loop_enabled,
                           zero_crossing, max_distance, threshold, preset_name, zone, lg)
    IN  [region |-> RegionSound(RegionAudio(zone, resample, resample_rate), loop,
                                zone.loop_on_release),
         log |-> loop.log]

----------------------------------------------------------------------------
\* converter.py and opxy_writer.py: the names of files and directories
\*
\* A string is the sequence of its characters.

DecimalDigits == <<"0", "1", "2", "3", "4", "5", "6", "7", "8", "9">>

\* str(n), n >= 0
RECURSIVE Str(_)
Str(n) ==
    IF n < 10 THEN <<DecimalDigits[n + 1]>>
    ELSE Str(n \div 10) \o <<DecimalDigits[(n % 10) + 1]>>

\* ch.isalnum()
IsAlnum(ch) == ch \in Range(UpperCase) \cup Range(LowerCase) \cup Range(DecimalDigits)

\* the loop of _sanitize_name
KeepChars(value) ==
    [i \in DOMAIN value |->
        IF IsAlnum(value[i]) \/ value[i] \in {"_", "-", " "} THEN value[i] ELSE "_"]

\* str.strip(): the only white space left by KeepChars is the space
RECURSIVE Strip(_)
Strip(s) ==
    IF s = <<>> THEN s
    ELSE IF Head(s) = " " THEN Strip(Tail(s))
    ELSE IF s[Len(s)] = " " THEN Strip(SubSeq(s, 1, Len(s) - 1))
    ELSE s

\* str.replace("  ", " "): one pass from the left over non-overlapping pairs
RECURSIVE ReplaceDoubleSpace(_)
ReplaceDoubleSpace(s) ==
    IF Len(s) < 2 THEN s
    ELSE IF s[1] = " " /\ s[2] = " " THEN <<" ">> \o ReplaceDoubleSpace(Tail(Tail(s)))
    ELSE <<s[1]>> \o ReplaceDoubleSpace(Tail(s))

\* str.replace(" ", "_")
ReplaceSpace(s) == [i \in DOMAIN s |-> IF s[i] = " " THEN "_" ELSE s[i]]

\* x or "preset"
OrPreset(s) == IF s = <<>> THEN <<"p", "r", "e", "s", "e", "t">> ELSE s

_sanitize_name(value) == OrPreset(ReplaceSpace(ReplaceDoubleSpace(Strip(KeepChars(value)))))

\* lines 469-470 and line 558: the name of a region before the collision suffix
MelodicBaseName(zone) == _sanitize_name(zone.sample.name) \o <<"_">> \o Str(zone.root_key)
DrumBaseName(zone) == _sanitize_name(zone.sample.name)

\* lines 471-475 and 559-563: seen_names[base_name] is the number of earlier
\* regions with the same base name; seen is the list of their base names
SuffixedName(base_name, seen) ==
    IF CountOf(seen, base_name) > 0
    THEN base_name \o <<"_">> \o Str(CountOf(seen, base_name))
    ELSE base_name

\* the file names of the regions of a bundle, in the order of the regions
RegionFileNames(base_names) ==
    [k \in DOMAIN base_names |->
        SuffixedName(base_names[k], SubSeq(base_names, 1, k - 1)) \o <<".", "w", "a", "v">>]

\* the dots of the last component of a path
LastDots(path) ==
    {i \in DOMAIN path : path[i] = "." /\ \A j \in (i + 1)..Len(path) : path[j] # "/"}

\* Path(path).suffix: the last component from its last dot on
PathSuffix(path) ==
    IF LastDots(path) = {} THEN <<>>
    ELSE SubSeq(path, SetMax(LastDots(path)), Len(path))

\* ensure_preset_dir: with_suffix(suffix + ".preset") puts ".preset" after the name
ensure_preset_dir(path) ==
    IF PathSuffix(path) = <<".", "p", "r", "e", "s", "e", "t">> THEN path
    ELSE path \o <<".", "p", "r", "e", "s", "e", "t">>

\* os.path.join(out_root, _sanitize_name(name))
PresetDir(out_root, name) == out_root \o <<"/">> \o _sanitize_name(name)

\* write_multisample_preset and write_drum_preset: the files written, in
\* order, each with what it holds; bundle is the number of the writer call
WriterFiles(bundle, out_dir, file_names) ==
    [k \in 1..Len(file_names) |->
        [path |-> ensure_preset_dir(out_dir) \o <<"/">> \o file_names[k],
         holds |-> <<bundle, k>>]]
    \o <<[path |-> ensure_preset_dir(out_dir)
                     \o <<"/", "p", "a", "t", "c", "h", ".", "j", "s", "o", "n">>,
          holds |-> <<bundle, 0>>]>>

\* open(path, "wb").write(...): a file written again holds the later content
RECURSIVE WriteFiles(_, _)
WriteFiles(disk, files) ==
    IF files = <<>> THEN disk
    ELSE WriteFiles((Head(files).path :> Head(files).holds) @@ disk, Tail(files))

----------------------------------------------------------------------------
\* opxy_writer.py: the regions of patch.json
\*
\* zone_id is not a key of the dictionary, it records which zone the region
\* was made from.

\* write_drum_preset, lines 162-180
DrumPatchRegion(region) ==
    [hikey |-> region.midi_note, lokey |-> region.midi_note, keycenter |-> 60,
     zone_id |-> region.zone_id]

write_drum_preset(preset) ==
    [name |-> preset.name,
     regions |-> [s \in DOMAIN preset.regions |-> DrumPatchRegion(preset.regions[s])]]

----------------------------------------------------------------------------
\* converter.py: convert_presets
\*
\* A name is a sequence of string tokens (an f-string is a concatenation).
\* w is the data the nested functions share while one preset is converted:
\*   w.zones    the zone objects of the preset (position = zone id), which
\*              _write_multisample_preset mutates in place
\*   w.log      the diagnostics accumulator
\*   w.written  the patches handed to the writer, in order
\* A filtered zone list is the sequence of the positions of its zones.

MAX_ZONES == 24         \* select_zones_for_88_keys(zones, 24, 21, 108)
KEY_MIN == 21
KEY_MAX == 108
DRUM_CHUNK == 24        \* zones_sorted[i:i + 24]
DRUM_FIRST_NOTE == 53   \* "midi_note": 53 + slot

\* {"reason": reason, **_zone_descriptor(zone)}
Discard(reason, zone) == [reason |-> reason] @@ _zone_descriptor(zone)

_resolve_is_drum(preset, f_mode) ==
    IF f_mode = "drum" THEN TRUE
    ELSE IF f_mode = "instrument" THEN FALSE
    ELSE preset.is_drum

\* for zone in zones: clamp an out-of-bounds root key in place, with a warning.
RECURSIVE ClampRoots(_, _, _, _)
ClampRoots(w, preset_name, filt, k) ==
    IF k > Len(filt) THEN w
    ELSE LET root_key == w.zones[filt[k]].root_key
         IN  IF root_key < KEY_MIN \/ root_key > KEY_MAX
             THEN ClampRoots(
                    [w EXCEPT !.log.warnings = Append(@,
                                 [preset |-> preset_name, reason |-> "root_key_clamped",
                                  root_key |-> root_key]),
                              !.zones[filt[k]].root_key = Max(KEY_MIN, Min(KEY_MAX, root_key))],
                    preset_name, filt, k + 1)
             ELSE ClampRoots(w, preset_name, filt, k + 1)

\* DownselectDiscards comparing root keys instead of identities: a zone that
\* shares its root key with a selected zone is taken for selected.
DownselectDiscards_ByRoot(zones, selected_ids, k, out) ==
    LET roots == {zones[j].root_key : j \in {j \in DOMAIN zones : zones[j].id \in selected_ids}}
        rest == SelectSeq(zones, LAMBDA z : z.root_key \notin roots)
    IN  out \o [j \in DOMAIN rest |-> [reason |-> "zone_downselect"] @@ _zone_descriptor(rest[j])]

\* for zone in zones: if id(zone) not in selected_ids: discarded.append(...)
RECURSIVE DownselectDiscards(_, _, _, _)
DownselectDiscards(zones, selected_ids, k, out) ==
    IF k > Len(zones) THEN out
    ELSE DownselectDiscards(zones, selected_ids, k + 1,
            IF zones[k].id \in selected_ids THEN out
            ELSE Append(out, Discard("zone_downselect", zones[k])))

MelodicRegion(zone) ==
    [zone_id |-> ZoneId(zone), root_key |-> zone.root_key,
     lokey |-> zone.lokey, hikey |-> zone.hikey]

_write_multisample_preset(w, preset_name, filt) ==
    IF filt = <<>>
    THEN [w EXCEPT !.log.warnings = Append(@, [preset |-> preset_name, reason |-> "no_zones"])]
    ELSE LET w1 == ClampRoots(w, preset_name, filt, 1)
             zones == [k \in DOMAIN filt |-> w1.zones[filt[k]]]
             selected == select_zones_for_88_keys(zones, MAX_ZONES, KEY_MIN, KEY_MAX).value
             selected_ids == {z.id : z \in Range(selected)}
             assigned == assign_key_ranges(selected, KEY_MIN, KEY_MAX)
         IN  [zones |-> [i \in DOMAIN w1.zones |->
                           IF i \in selected_ids
                           THEN CHOOSE z \in Range(assigned) : z.id = i
                           ELSE w1.zones[i]],
              log |-> [discarded |-> DownselectDiscards(zones, selected_ids, 1, w1.log.discarded),
                       warnings |-> w1.log.warnings,
                       presets |-> Append(w1.log.presets,
                                     [name |-> preset_name, zones |-> Len(zones),
                                      kept |-> Len(assigned)])],
              written |-> Append(w1.written,
                            [kind |-> "multisample", name |-> preset_name,
                             regions |-> [i \in DOMAIN assigned |-> MelodicRegion(assigned[i])]])]

\* (a variant that counts the slots of a chunk from 1)
DrumRegion_SlotFromOne(zone, slot) ==
    [zone_id |-> ZoneId(zone), root_key |-> zone.root_key,
     midi_note |-> DRUM_FIRST_NOTE + slot + 1]

DrumRegion(zone, slot) ==
    [zone_id |-> ZoneId(zone), root_key |-> zone.root_key,
     midi_note |-> DRUM_FIRST_NOTE + slot]

\* f"{chunk_index + 1:02d}"
TwoDigits(n) == IF n < 10 THEN "0" \o ToString(n) ELSE ToString(n)

RECURSIVE DrumChunksLoop(_, _, _, _, _)

\* (a variant in which the entry of a chunk is put at the head of presets)
DrumChunksLoop_Prepend(w, preset_name, zones_sorted, n_zones, chunk_index) ==
    IF chunk_index * DRUM_CHUNK >= Len(zones_sorted) THEN w
    ELSE LET chunk == SubSeq(zones_sorted, chunk_index * DRUM_CHUNK + 1,
                             Min(Len(zones_sorted), (chunk_index + 1) * DRUM_CHUNK))
             name == IF Len(zones_sorted) > DRUM_CHUNK
                     THEN preset_name \o <<"_", TwoDigits(chunk_index + 1)>>
                     ELSE preset_name
         IN  DrumChunksLoop(
                [w EXCEPT !.written = Append(@,
                              [kind |-> "drum", name |-> name,
                               regions |-> [s \in DOMAIN chunk |-> DrumRegion(chunk[s], s - 1)]]),
                          !.log.presets = <<[name |-> name, zones |-> n_zones,
                                             kept |-> Len(chunk)]>> \o @],
                preset_name, zones_sorted, n_zones, chunk_index + 1)

\* for chunk_index, chunk in enumerate(chunks)
DrumChunksLoop(w, preset_name, zones_sorted, n_zones, chunk_index) ==
    IF chunk_index * DRUM_CHUNK >= Len(zones_sorted) THEN w
    ELSE LET chunk == SubSeq(zones_sorted, chunk_index * DRUM_CHUNK + 1,
                             Min(Len(zones_sorted), (chunk_index + 1) * DRUM_CHUNK))
             name == IF Len(zones_sorted) > DRUM_CHUNK
                     THEN preset_name \o <<"_", TwoDigits(chunk_index + 1)>>
                     ELSE preset_name
         IN  DrumChunksLoop(
                [w EXCEPT !.written = Append(@,
                              [kind |-> "drum", name |-> name,
                               regions |-> [s \in DOMAIN chunk |-> DrumRegion(chunk[s], s - 1)]]),
                          !.log.presets = Append(@,
                              [name |-> name, zones |-> n_zones, kept |-> Len(chunk)])],
                preset_name, zones_sorted, n_zones, chunk_index + 1)

_write_drum_preset(w, preset_name, filt) ==
    IF filt = <<>>
    THEN [w EXCEPT !.log.warnings = Append(@, [preset |-> preset_name, reason |-> "no_zones"])]
    ELSE DrumChunksLoop(w, preset_name,
                        SortedByRoot([k \in DOMAIN filt |-> w.zones[filt[k]]]),
                        Len(filt), 0)

write_preset(w, preset_name, preset, filt, f_mode) ==
    IF _resolve_is_drum(preset, f_mode)
    THEN _write_drum_preset(w, preset_name, filt)
    ELSE _write_multisample_preset(w, preset_name, filt)

\* The velocity filter loop: r.filtered collects the matching positions, the
\* others are logged as velocity_filtered (extra is the velocity / vels
\* entry of the log record).
RECURSIVE VelocityFilterLoop(_, _, _, _, _)
VelocityFilterLoop(zones, vels, extra, k, r) ==
    IF k > Len(zones) THEN r
    ELSE IF _velocity_match(zones[k].vel_range, vels)
         THEN VelocityFilterLoop(zones, vels, extra, k + 1,
                                 [r EXCEPT !.filtered = Append(@, k)])
         ELSE VelocityFilterLoop(zones, vels, extra, k + 1,
                                 [r EXCEPT !.discarded = Append(@,
                                     [reason |-> "velocity_filtered", vels |-> extra]
                                         @@ _zone_descriptor(zones[k]))])

\* v_mode == "split": for velocity in vels
RECURSIVE SplitLoop(_, _, _, _, _)
SplitLoop(w, preset, vels, f_mode, v) ==
    IF v > Len(vels) THEN w
    ELSE LET r == VelocityFilterLoop(w.zones, <<vels[v]>>, <<vels[v]>>, 1,
                                     [filtered |-> <<>>, discarded |-> w.log.discarded])
             variant == preset.name \o <<"_vel", ToString(vels[v])>>
         IN  SplitLoop(write_preset([w EXCEPT !.log.discarded = r.discarded],
                                    variant, preset, r.filtered, f_mode),
                       preset, vels, f_mode, v + 1)

\* The body of "for preset in presets" for one preset.
ConvertPreset(w, preset, vels, v_mode, dv_mode, f_mode) ==
    IF v_mode = "split"
    THEN SplitLoop(w, preset, vels, f_mode, 1)
    ELSE IF _resolve_is_drum(preset, f_mode) /\ dv_mode = "closest"
    THEN LET r == _select_drum_zones_by_velocity(w.zones, vels, preset.name, w.log)
         IN  write_preset([w EXCEPT !.log = r.log], preset.name, preset, r.selected, f_mode)
    ELSE LET r == VelocityFilterLoop(w.zones, vels, vels, 1,
                                     [filtered |-> <<>>, discarded |-> w.log.discarded])
         IN  write_preset([w EXCEPT !.log.discarded = r.discarded],
                          preset.name, preset, r.filtered, f_mode)

----------------------------------------------------------------------------
\* convert_presets run on small banks.

MaxPresets == 2     \* presets in a bank
MaxFew == 3         \* zones of a small preset
MaxOver == 1        \* a large preset has MAX_ZONES + MaxOver zones
MaxLayers == 3      \* velocity layers of a layered preset

\* The shapes of the presets: the root key of the first zone, the step from
\* one root key to the next, and whether each root key has one zone or
\* MaxLayers velocity layers.
Piano == [name |-> <<"Piano">>, is_drum |-> FALSE, base |-> 19, stride |-> 4]
Bell == [name |-> <<"Bell">>, is_drum |-> FALSE, base |-> 108, stride |-> 1]
Organ == [name |-> <<"Organ">>, is_drum |-> FALSE, base |-> 60, stride |-> 0]
Kit == [name |-> <<"Kit">>, is_drum |-> TRUE, base |-> 36, stride |-> 1]

\* Velocity layer j (0-based) of a preset with the given number of layers.
LayerRange(layers, j) == <<(128 * j) \div layers, (128 * (j + 1)) \div layers - 1>>

\* Zone i of a preset: consecutive zones are the layers of one root key.
FamilyZone(shape, layers, i) ==
    [id |-> i, owner |-> 0, preset |-> shape.name,
     root_key |-> Min(127, shape.base + ((i - 1) \div layers) * shape.stride),
     vel_range |-> LayerRange(layers, (i - 1) % layers),
     lokey |-> NoKey, hikey |-> NoKey]

FamilyPreset(shape, layers, n) ==
    [name |-> shape.name, is_drum |-> shape.is_drum,
     zones |-> [i \in 1..n |-> FamilyZone(shape, layers, i)]]

EmptyPreset == [name |-> <<"Empty">>, is_drum |-> FALSE, zones |-> <<>>]

SmallPresets ==
    {EmptyPreset,
     FamilyPreset(Piano, MaxLayers, MaxFew), FamilyPreset(Bell, 1, MaxFew),
     FamilyPreset(Organ, 1, MaxFew), FamilyPreset(Kit, 1, MaxFew),
     FamilyPreset(Kit, MaxLayers, MaxFew)}

LargePresets ==
    {FamilyPreset(Piano, 1, MAX_ZONES + MaxOver), FamilyPreset(Bell, 1, MAX_ZONES + MaxOver),
     FamilyPreset(Kit, 1, MAX_ZONES + MaxOver), FamilyPreset(Kit, MaxLayers, MAX_ZONES + MaxOver)}

\* The presets of a bank as objects of their own: each zone knows its preset.
Owned(b) ==
    [p \in DOMAIN b |->
        [b[p] EXCEPT !.zones = [i \in DOMAIN b[p].zones |-> [b[p].zones[i] EXCEPT !.owner = p]]]]

\* A bank holds at most MaxPresets presets, at most one of them large.
Banks ==
    UNION {{Owned(b) : b \in {c \in [1..n -> SmallPresets \cup LargePresets] :
                                Cardinality({i \in 1..n : c[i] \in LargePresets}) <= 1}}
           : n \in 0..MaxPresets}

ConvInit ==
    /\ presets \in Banks
    /\ velocities \in {<<101>>, <<30, 101>>}
    /\ velocity_mode \in {"keep", "split"}
    /\ drum_velocity_mode \in {"closest", "strict"}
    /\ velocity_mode = "split" => drum_velocity_mode = "closest"
    /\ force_mode \in {"none", "drum", "instrument"}
    /\ bit_depth \in {16, 24}
    /\ bit_depth # 16 => /\ velocities = <<101>>
                         /\ velocity_mode = "keep"
                         /\ drum_velocity_mode = "closest"
                         /\ force_mode = "none"
    /\ keywords \in {{"resample", "dry_run"}, {"resample", "dry_run", "progress_callback"}}
    /\ "progress_callback" \in keywords => /\ velocities = <<101>>
                                           /\ velocity_mode = "keep"
                                           /\ drum_velocity_mode = "closest"
                                           /\ force_mode = "none"
                                           /\ bit_depth = 16
    /\ progress_calls = <<>>
    /\ conv_pc = "call"
    /\ conv_i = 0
    /\ log = EmptyLog
    /\ written = <<>>

ConvIdle ==
    /\ presets = <<>>
    /\ velocities = <<>>
    /\ velocity_mode = "keep"
    /\ drum_velocity_mode = "closest"
    /\ force_mode = "none"
    /\ bit_depth = 16
    /\ keywords = {}
    /\ progress_calls = <<>>
    /\ conv_pc = "idle"
    /\ conv_i = 0
    /\ log = EmptyLog
    /\ written = <<>>

\* The parameters of convert_presets after the six positional ones.
KeywordParameters ==
    {"resample", "dry_run", "force_mode", "instrument_playmode", "drum_velocity_mode",
     "zero_crossing", "zero_crossing_max_distance", "zero_crossing_threshold"}

\* A call with a keyword argument that is no parameter raises TypeError
\* before the body runs.
ConvReject ==
    /\ conv_pc = "call"
    /\ ~(keywords \subseteq KeywordParameters)
    /\ conv_pc' = "TypeError"
    /\ UNCHANGED <<presets, velocities, velocity_mode, drum_velocity_mode, force_mode,
                   bit_depth, conv_i, log, written, keywords, progress_calls>>
    /\ UNCHANGED <<selVars, drumVars, auVars, lpVars, envVars, eoVars, rdVars, deVars, fxVars, zcVars, rgVars, nmVars>>

\* convert_presets up to its loop: the log is created, an unsupported bit
\* depth is warned about.
ConvStart ==
    /\ conv_pc = "call"
    /\ keywords \subseteq KeywordParameters
    /\ conv_pc' = "loop"
    /\ log' = IF bit_depth # 16
              THEN [EmptyLog EXCEPT !.warnings =
                      <<[reason |-> "unsupported_bit_depth", bit_depth |-> bit_depth]>>]
              ELSE EmptyLog
    /\ UNCHANGED <<presets, velocities, velocity_mode, drum_velocity_mode, force_mode,
                   bit_depth, conv_i, written, keywords, progress_calls>>
    /\ UNCHANGED <<selVars, drumVars, auVars, lpVars, envVars, eoVars, rdVars, deVars, fxVars, zcVars, rgVars, nmVars>>

\* One iteration of "for preset in presets".
ConvLoop ==
    /\ conv_pc = "loop"
    /\ conv_i < Len(presets)
    /\ LET preset == presets[conv_i + 1]
           w == ConvertPreset([zones |-> preset.zones, log |-> log, written |-> written],
                              preset, velocities, velocity_mode, drum_velocity_mode,
                              force_mode)
       IN  /\ presets' = [presets EXCEPT ![conv_i + 1].zones = w.zones]
           /\ log' = w.log
           /\ written' = w.written
    /\ conv_i' = conv_i + 1
    /\ UNCHANGED <<velocities, velocity_mode, drum_velocity_mode, force_mode, bit_depth,
                   conv_pc, keywords, progress_calls>>
    /\ UNCHANGED <<selVars, drumVars, auVars, lpVars, envVars, eoVars, rdVars, deVars, fxVars, zcVars, rgVars, nmVars>>

\* return log
ConvReturn ==
    /\ conv_pc = "loop"
    /\ conv_i = Len(presets)
    /\ conv_pc' = "returned"
    /\ UNCHANGED <<presets, velocities, velocity_mode, drum_velocity_mode, force_mode,
                   bit_depth, conv_i, log, written, keywords, progress_calls>>
    /\ UNCHANGED <<selVars, drumVars, auVars, lpVars, envVars, eoVars, rdVars, deVars, fxVars, zcVars, rgVars, nmVars>>

ConvNext == ConvReject \/ ConvStart \/ ConvLoop \/ ConvReturn

----------------------------------------------------------------------------
\* _select_drum_zones_by_velocity called on its own with arbitrary small
\* zone lists: two root keys, velocity ranges and targets in 0 .. MaxVel, the
\* targets listed in increasing order.

MaxDrumLen == 2     \* longest zone list
MaxVel == 2         \* largest velocity
MaxTargets == 2     \* longest velocities list

DrumRoots == {36, 38}

DrumZoneLists ==
    UNION {{[i \in 1..n |-> [id |-> i, owner |-> 1, preset |-> <<"Kit">>,
                             root_key |-> f[i][1], vel_range |-> <<f[i][2], f[i][3]>>]]
            : f \in [1..n -> {t \in DrumRoots \X (0..MaxVel) \X (0..MaxVel) : t[2] <= t[3]}]}
           : n \in 0..MaxDrumLen}

DrumInit ==
    /\ drum_zones \in DrumZoneLists
    /\ drum_vels \in UNION {{v \in [1..n -> 0..MaxVel] : \A i \in 1..(n - 1) : v[i] < v[i + 1]}
                             : n \in 0..MaxTargets}
    /\ drum_call = FALSE
    /\ drum_ret = [selected |-> <<>>, log |-> EmptyLog]

DrumIdle ==
    /\ drum_zones = <<>>
    /\ drum_vels = <<>>
    /\ drum_call = FALSE
    /\ drum_ret = [selected |-> <<>>, log |-> EmptyLog]

CallSelectDrum ==
    /\ ~drum_call
    /\ drum_call' = TRUE
    /\ drum_ret' = _select_drum_zones_by_velocity(drum_zones, drum_vels, <<"Kit">>, EmptyLog)
    /\ UNCHANGED <<drum_zones, drum_vels>>
    /\ UNCHANGED <<selVars, convVars, auVars, lpVars, envVars, eoVars, rdVars, deVars, fxVars, zcVars, rgVars, nmVars>>

DrumNext == CallSelectDrum

----------------------------------------------------------------------------
\* The resamplers called on their own: short sample lists, three rates.

MaxSamples == 6     \* longest sample list
MaxChannels == 2    \* most channels
NUM_TAPS == 16      \* the default num_taps of resample_sinc

SampleValues == {0, 100, -75}
Rates == {22050, 44100, 48000}

AuInit ==
    /\ au_samples \in UNION {[1..n -> SampleValues] : n \in 0..MaxSamples}
    /\ au_src_rate \in Rates
    /\ au_dst_rate \in Rates
    /\ au_call = "none"
    /\ au_args = [channels |-> 1, num_taps |-> NUM_TAPS, has_numpy |-> FALSE]
    /\ au_ret = Returned(<<>>)

AuIdle ==
    /\ au_samples = <<>>
    /\ au_src_rate = 0
    /\ au_dst_rate = 0
    /\ au_call = "none"
    /\ au_args = [channels |-> 1, num_taps |-> NUM_TAPS, has_numpy |-> FALSE]
    /\ au_ret = Returned(<<>>)

CallResampleLinear ==
    /\ au_call = "none"
    /\ au_call' = "linear"
    /\ au_ret' = Returned(resample_linear(au_samples, au_src_rate, au_dst_rate))
    /\ UNCHANGED <<au_samples, au_src_rate, au_dst_rate, au_args>>
    /\ UNCHANGED <<selVars, convVars, drumVars, lpVars, envVars, eoVars, rdVars, deVars, fxVars, zcVars, rgVars, nmVars>>

CallResampleSinc ==
    /\ au_call = "none"
    /\ au_call' = "sinc"
    /\ \E num_taps \in {1, NUM_TAPS}, has_numpy \in BOOLEAN :
          /\ au_args' = [au_args EXCEPT !.num_taps = num_taps, !.has_numpy = has_numpy]
          /\ au_ret' = resample_sinc(au_samples, au_src_rate, au_dst_rate, num_taps, has_numpy)
    /\ UNCHANGED <<au_samples, au_src_rate, au_dst_rate>>
    /\ UNCHANGED <<selVars, convVars, drumVars, lpVars, envVars, eoVars, rdVars, deVars, fxVars, zcVars, rgVars, nmVars>>

CallResamplePcm ==
    /\ au_call = "none"
    /\ au_call' = "pcm"
    /\ \E channels \in 1..MaxChannels :
          /\ au_args' = [au_args EXCEPT !.channels = channels]
          /\ au_ret' = Returned(_resample_pcm(au_samples, channels, au_src_rate, au_dst_rate))
    /\ UNCHANGED <<au_samples, au_src_rate, au_dst_rate>>
    /\ UNCHANGED <<selVars, convVars, drumVars, lpVars, envVars, eoVars, rdVars, deVars, fxVars, zcVars, rgVars, nmVars>>

AuNext == CallResampleLinear \/ CallResampleSinc \/ CallResamplePcm

----------------------------------------------------------------------------
\* The loop-end offset applied to small patches.

MaxRegions == 1     \* most regions in a patch
MaxFrames == 3      \* largest frame index
MaxDelta == 2       \* largest offset, either way

LoopRegions ==
    [loop_enabled : BOOLEAN,
     loop_start : 0..MaxFrames,
     loop_end : 0..MaxFrames,
     framecount : {0, MaxFrames - 1, MaxFrames}]

NoPatch == [name |-> <<>>, regions |-> <<>>]

LpInit ==
    /\ \E n \in 0..MaxRegions : \E regions \in [1..n -> LoopRegions] :
          lp_patch = [name |-> <<"Piano">>, regions |-> regions]
    /\ lp_delta \in (-MaxDelta)..MaxDelta
    /\ lp_call = "none"
    /\ lp_ret = 0

LpIdle ==
    /\ lp_patch = NoPatch
    /\ lp_delta = 0
    /\ lp_call = "none"
    /\ lp_ret = 0

\* apply_loop_end_offset on the loop of the first region
CallApplyLoopEndOffset ==
    /\ lp_call = "none"
    /\ lp_patch.regions # <<>>
    /\ lp_call' = "apply_loop_end_offset"
    /\ lp_ret' = apply_loop_end_offset(lp_patch.regions[1].loop_start,
                                       lp_patch.regions[1].loop_end,
                                       lp_patch.regions[1].framecount, lp_delta)
    /\ UNCHANGED <<lp_patch, lp_delta>>
    /\ UNCHANGED <<selVars, convVars, drumVars, auVars, envVars, eoVars, rdVars, deVars, fxVars, zcVars, rgVars, nmVars>>

CallApplyOffsetToPatch ==
    /\ lp_call = "none"
    /\ lp_call' = "_apply_offset_to_patch"
    /\ lp_ret' = _apply_offset_to_patch(lp_patch, lp_delta, OffsetLabel(lp_delta))
    /\ UNCHANGED <<lp_patch, lp_delta>>
    /\ UNCHANGED <<selVars, convVars, drumVars, auVars, envVars, eoVars, rdVars, deVars, fxVars, zcVars, rgVars, nmVars>>

\* make_offset_variants(patch, [0, delta]) with the default base_offset
CallMakeOffsetVariants ==
    /\ lp_call = "none"
    /\ lp_call' = "make_offset_variants"
    /\ lp_ret' = make_offset_variants(lp_patch, <<0, lp_delta>>, 0)
    /\ UNCHANGED <<lp_patch, lp_delta>>
    /\ UNCHANGED <<selVars, convVars, drumVars, auVars, envVars, eoVars, rdVars, deVars, fxVars, zcVars, rgVars, nmVars>>

LpNext == CallApplyLoopEndOffset \/ CallApplyOffsetToPatch \/ CallMakeOffsetVariants

----------------------------------------------------------------------------
\* scale_attack_seconds called on its own: times at and below zero, around
\* the minimum, on a quadratic grid up to and past the maximum.

MaxGrid == 40       \* grid points; point g is g * g / 4 seconds
MaxNear == 10       \* ticks either side of a threshold

AttackInputs ==
    {g * g * (Units \div 4) : g \in 0..MaxGrid}
        \cup {ATTACK_MIN_SECONDS + d : d \in (-MaxNear)..MaxNear}
        \cup {ATTACK_MAX_SECONDS + d : d \in (-MaxNear)..MaxNear}
        \cup {-d * Units : d \in 0..MaxNear}
        \cup {2 * Units, 10 * Units}

EnvInit ==
    /\ env_seconds \in AttackInputs
    /\ env_max_seconds = ATTACK_MAX_SECONDS
    /\ env_call = "none"
    /\ env_ret = 0

EnvIdle ==
    /\ env_seconds = 0
    /\ env_max_seconds = ATTACK_MAX_SECONDS
    /\ env_call = "none"
    /\ env_ret = 0

CallScaleAttackSeconds ==
    /\ env_call = "none"
    /\ env_call' = "scale_attack_seconds"
    /\ env_ret' = scale_attack_seconds(env_seconds, env_max_seconds)
    /\ UNCHANGED <<env_seconds, env_max_seconds>>
    /\ UNCHANGED <<selVars, convVars, drumVars, auVars, lpVars, eoVars, rdVars, deVars, fxVars, zcVars, rgVars, nmVars>>

EnvNext == CallScaleAttackSeconds

----------------------------------------------------------------------------
\* _env_to_opxy called on its own: every stage absent or one of a few
\* timecent values from a millisecond to a thousand seconds, the sustain
\* absent, negative, zero or an attenuation.

MaxTcSteps == 2     \* timecent values either side of 0 (one second)
MaxCbSteps == 3     \* sustain attenuations
TcStep == 6000
CbStep == 250

TcValues == {None} \cup {TcStep * k : k \in (-MaxTcSteps)..MaxTcSteps}
CbValues == {None, -100} \cup {CbStep * k : k \in 0..MaxCbSteps}

\* the delay and the hold: absent, shortest or longest
EdgeTcValues == {None, -TcStep * MaxTcSteps, TcStep * MaxTcSteps}

ZoneEnvs ==
    [delay_tc : EdgeTcValues, attack_tc : TcValues, hold_tc : EdgeTcValues,
     decay_tc : TcValues, release_tc : TcValues, sustain_cb : CbValues]

EoInit ==
    /\ eo_env \in ZoneEnvs
    /\ eo_call = "none"
    /\ eo_ret = [attack |-> 0, decay |-> 0, sustain |-> 0, release |-> 0]

EoIdle ==
    /\ eo_env = [delay_tc |-> None, attack_tc |-> None, hold_tc |-> None,
                 decay_tc |-> None, release_tc |-> None, sustain_cb |-> None]
    /\ eo_call = "none"
    /\ eo_ret = [attack |-> 0, decay |-> 0, sustain |-> 0, release |-> 0]

CallEnvToOpxy ==
    /\ eo_call = "none"
    /\ eo_call' = "_env_to_opxy"
    /\ eo_ret' = _env_to_opxy(eo_env)
    /\ UNCHANGED eo_env
    /\ UNCHANGED <<selVars, convVars, drumVars, auVars, lpVars, envVars, rdVars, deVars, fxVars, zcVars, rgVars, nmVars>>

EoNext == CallEnvToOpxy

----------------------------------------------------------------------------
\* extract_presets on small banks.  Every bank has the samples below, two
\* presets and one instrument: the first preset's bags and the instrument's
\* bags are drawn from a family of bags, the second preset has one plain
\* bag naming the same instrument.

MaxPresetBags == 2      \* most bags of the first preset
MaxInstBags == 2        \* most bags of the instrument

\* eight frames, looped over frames 2 .. 6
Sample0 ==
    [name |-> <<"s", "0">>, pcm |-> <<100, 101, 102, 103, 104, 105, 106, 107>>,
     sample_rate |-> 44100, is_mono |-> TRUE, sample_link |-> 0,
     start_loop |-> 2, end_loop |-> 6, pitch_correction |-> 0, original_pitch |-> 60]

\* four frames, no loop, 30 cents sharp
Sample1 ==
    [name |-> <<"s", "1">>, pcm |-> <<200, 201, 202, 203>>,
     sample_rate |-> 22050, is_mono |-> TRUE, sample_link |-> 0,
     start_loop |-> 0, end_loop |-> 0, pitch_correction |-> 30, original_pitch |-> 62]

\* the left half of a stereo pair whose right half is Sample1
Sample2 ==
    [name |-> <<"s", "L">>, pcm |-> <<300, 301, 302, 303, 304, 305>>,
     sample_rate |-> 22050, is_mono |-> FALSE, sample_link |-> 1,
     start_loop |-> 1, end_loop |-> 3, pitch_correction |-> 0, original_pitch |-> 64]

TerminalSample ==
    [name |-> EOS, pcm |-> <<>>, sample_rate |-> 0, is_mono |-> TRUE, sample_link |-> 0,
     start_loop |-> 0, end_loop |-> 0, pitch_correction |-> 0, original_pitch |-> 0]

BankSamples == <<Sample0, Sample1, Sample2, TerminalSample>>

SeqsUpTo(S, n) == UNION {[1..k -> S] : k \in 0..n}

Pno == <<"P", "n", "o">>
Gtr == <<"G", "t", "r">>
Two == <<"T", "w", "o">>

\* A bank: the first preset and instrument 0 as given, a second preset with
\* one plain bag on instrument 0, the terminal records.
Bank(preset_name, bank, pbags, inst_name, ibags) ==
    [presets |-> <<[name |-> preset_name, bank |-> bank, bags |-> pbags],
                   [name |-> Two, bank |-> 0, bags |-> <<[OPER_INSTRUMENT |-> 0]>>],
                   [name |-> EOP, bank |-> 255, bags |-> <<>>]>>,
     instruments |-> <<[name |-> inst_name, bags |-> ibags],
                       [name |-> EOI, bags |-> <<>>]>>,
     samples |-> BankSamples]

\* key and velocity ranges at the four levels
RangePresetBags ==
    {[OPER_KEY_RANGE |-> <<0, 60>>, OPER_VEL_RANGE |-> <<0, 63>>],
     [OPER_INSTRUMENT |-> 0],
     [OPER_INSTRUMENT |-> 0, OPER_KEY_RANGE |-> <<40, 80>>, OPER_VEL_RANGE |-> <<64, 127>>]}
RangeInstBags ==
    {[OPER_KEY_RANGE |-> <<61, 127>>],
     [OPER_VEL_RANGE |-> <<0, 10>>],
     [OPER_SAMPLE_ID |-> 0, OPER_KEY_RANGE |-> <<90, 127>>],
     [OPER_SAMPLE_ID |-> 1, OPER_KEY_RANGE |-> <<50, 70>>],
     [OPER_SAMPLE_ID |-> 3]}

\* first-wins generators at the four levels
FirstPresetBags ==
    {[OPER_EXCLUSIVE_CLASS |-> 1, OPER_SAMPLE_MODES |-> 1],
     [OPER_INSTRUMENT |-> 0],
     [OPER_INSTRUMENT |-> 0, OPER_EXCLUSIVE_CLASS |-> 2, OPER_OVERRIDING_ROOT_KEY |-> 72]}
FirstInstBags ==
    {[OPER_EXCLUSIVE_CLASS |-> 3, OPER_OVERRIDING_ROOT_KEY |-> 48],
     [OPER_SAMPLE_ID |-> 0],
     [OPER_SAMPLE_ID |-> 0, OPER_EXCLUSIVE_CLASS |-> 4, OPER_SAMPLE_MODES |-> 3],
     [OPER_SAMPLE_ID |-> 1, OPER_SAMPLE_MODES |-> 0, OPER_COARSE_TUNE |-> -2]}

\* sample and loop offsets, sample modes
TrimPresetBags ==
    {[OPER_END_ADDR_OFFSET |-> -4],
     [OPER_INSTRUMENT |-> 0],
     [OPER_INSTRUMENT |-> 0, OPER_START_ADDR_OFFSET |-> 3, OPER_SAMPLE_MODES |-> 1]}
TrimInstBags ==
    {[OPER_SAMPLE_MODES |-> 1, OPER_START_LOOP_ADDR_OFFSET |-> 5],
     [OPER_SAMPLE_ID |-> 0],
     [OPER_SAMPLE_ID |-> 0, OPER_SAMPLE_MODES |-> 3, OPER_END_ADDR_OFFSET |-> -5],
     [OPER_SAMPLE_ID |-> 0, OPER_START_ADDR_OFFSET |-> 8],
     [OPER_SAMPLE_ID |-> 1, OPER_SAMPLE_MODES |-> 2],
     [OPER_SAMPLE_ID |-> 2, OPER_SAMPLE_MODES |-> 2, OPER_END_LOOP_ADDR_OFFSET |-> 9,
      OPER_START_ADDR_OFFSET |-> -1]}

\* references: to the terminal records, past the lists, to a stereo sample
RefPresetBags ==
    {[OPER_INSTRUMENT |-> 0],
     [OPER_INSTRUMENT |-> 1],
     [OPER_INSTRUMENT |-> 2]}
RefInstBags ==
    {[OPER_SAMPLE_ID |-> 0],
     [OPER_SAMPLE_ID |-> 3],
     [OPER_SAMPLE_ID |-> 4],
     [OPER_SAMPLE_ID |-> 2, OPER_FINE_TUNE |-> 150, OPER_ATTACK_VOL_ENV |-> -1200,
      OPER_REVERB_EFFECTS_SEND |-> 250]}

\* names, banks and zone shapes for the drum classification
DrKit == <<"D", "r", "K", "i", "t">>
UpBeat == <<"U", "p", "B", "E", "A", "T">>
Perc == <<"P", "e", "r", "c">>

ShapePresetBags == {[OPER_INSTRUMENT |-> 0]}
ShapeInstBags ==
    {[OPER_SAMPLE_ID |-> 0],
     [OPER_SAMPLE_ID |-> 0, OPER_KEY_RANGE |-> <<60, 60>>],
     [OPER_SAMPLE_ID |-> 1, OPER_KEY_RANGE |-> <<62, 62>>],
     [OPER_SAMPLE_ID |-> 0, OPER_KEY_RANGE |-> <<0, 60>>, OPER_OVERRIDING_ROOT_KEY |-> 61]}

\* an instrument of n sample bags, the first `narrow` of them on a single
\* key, with `roots` distinct root keys
ManyBag(k, narrow, roots) ==
    [OPER_SAMPLE_ID |-> 0,
     OPER_KEY_RANGE |-> IF k <= narrow THEN <<k, k>> ELSE <<0, 127>>,
     OPER_OVERRIDING_ROOT_KEY |-> 60 + Min(k, roots)]
ManyInstBagLists ==
    {[k \in 1..n |-> ManyBag(k, narrow, roots)] : n \in {9, 10}, narrow \in 5..8, roots \in 7..9}

\* The families of banks: the bags of the first preset and of instrument 0,
\* and their names and the bank number.
BankFamilies == {"range", "first", "trim", "ref", "shape", "many"}
PresetBagLists(family) ==
    CASE family = "range" -> SeqsUpTo(RangePresetBags, MaxPresetBags)
      [] family = "first" -> SeqsUpTo(FirstPresetBags, MaxPresetBags)
      [] family = "trim" -> SeqsUpTo(TrimPresetBags, MaxPresetBags)
      [] family = "ref" -> SeqsUpTo(RefPresetBags, MaxPresetBags)
      [] family = "shape" -> SeqsUpTo(ShapePresetBags, MaxPresetBags)
      [] family = "many" -> {<<[OPER_INSTRUMENT |-> 0]>>}
InstBagLists(family) ==
    CASE family = "range" -> SeqsUpTo(RangeInstBags, MaxInstBags)
      [] family = "first" -> SeqsUpTo(FirstInstBags, MaxInstBags)
      [] family = "trim" -> SeqsUpTo(TrimInstBags, MaxInstBags)
      [] family = "ref" -> SeqsUpTo(RefInstBags, MaxInstBags)
      [] family = "shape" -> SeqsUpTo(ShapeInstBags, MaxInstBags)
      [] family = "many" -> ManyInstBagLists
PresetNames(family) == IF family = "shape" THEN {Pno, DrKit, UpBeat} ELSE {Pno}
InstNames(family) == IF family = "shape" THEN {Gtr, Perc} ELSE {Gtr}
BankNumbers(family) == IF family = "shape" THEN {0, 128} ELSE {0}

NoBank == [presets |-> <<>>, instruments |-> <<>>, samples |-> <<>>]
EmptyParse == [presets |-> <<>>, skipped_zones |-> <<>>, warnings |-> <<>>, raised |-> "no"]

RdInit ==
    /\ \E family \in BankFamilies :
          \E pbags \in PresetBagLists(family), ibags \in InstBagLists(family),
             preset_name \in PresetNames(family), inst_name \in InstNames(family),
             bank \in BankNumbers(family) :
                rd_sf2 = Bank(preset_name, bank, pbags, inst_name, ibags)
    /\ rd_pc = "call"
    /\ rd_i = 0
    /\ rd_out = EmptyParse

RdIdle ==
    /\ rd_sf2 = NoBank
    /\ rd_pc = "idle"
    /\ rd_i = 0
    /\ rd_out = EmptyParse

\* extract_presets up to its loop: parse_log and presets are created
ExtractStart ==
    /\ rd_pc = "call"
    /\ rd_pc' = "loop"
    /\ rd_out' = EmptyParse
    /\ UNCHANGED <<rd_sf2, rd_i>>
    /\ UNCHANGED <<selVars, convVars, drumVars, auVars, lpVars, envVars, eoVars, deVars, fxVars, zcVars, rgVars, nmVars>>

\* One iteration of "for preset in sf2.presets"; an exception ends the call.
ExtractLoop ==
    /\ rd_pc = "loop"
    /\ rd_i < Len(rd_sf2.presets)
    /\ LET out == ExtractPreset(rd_sf2, rd_i + 1, rd_out)
       IN  /\ rd_out' = out
           /\ rd_pc' = IF out.raised # "no" THEN out.raised ELSE "loop"
    /\ rd_i' = rd_i + 1
    /\ UNCHANGED rd_sf2
    /\ UNCHANGED <<selVars, convVars, drumVars, auVars, lpVars, envVars, eoVars, deVars, fxVars, zcVars, rgVars, nmVars>>

\* return presets, parse_log
ExtractReturn ==
    /\ rd_pc = "loop"
    /\ rd_i = Len(rd_sf2.presets)
    /\ rd_pc' = "returned"
    /\ UNCHANGED <<rd_sf2, rd_i, rd_out>>
    /\ UNCHANGED <<selVars, convVars, drumVars, auVars, lpVars, envVars, eoVars, deVars, fxVars, zcVars, rgVars, nmVars>>

RdNext == ExtractStart \/ ExtractLoop \/ ExtractReturn

----------------------------------------------------------------------------
\* _derive_envelope on the zones of a preset

MaxEnvZones == 4

\* envelopes of a zone as extract_presets builds them
EnvBase(present) ==
    [delay_tc |-> None, attack_tc |-> None, hold_tc |-> None, decay_tc |-> None,
     release_tc |-> None, sustain_cb |-> None, present |-> present]
EnvAbsent == EnvBase(FALSE)
EnvAttack == [attack_tc |-> 0] @@ EnvBase(TRUE)
EnvAttackSustain == [attack_tc |-> 0, sustain_cb |-> -100] @@ EnvBase(TRUE)
EnvRelease == [release_tc |-> 1200] @@ EnvBase(TRUE)
EnvDecay == [decay_tc |-> -6000, sustain_cb |-> 250] @@ EnvBase(TRUE)

\* the zones: amp_env and mod_env of each
EnvZones ==
    {[amp_env |-> <<EnvAttack>>, mod_env |-> <<EnvAbsent>>],
     [amp_env |-> <<EnvAttackSustain>>, mod_env |-> <<EnvRelease>>],
     [amp_env |-> <<EnvRelease>>, mod_env |-> <<EnvAttack>>],
     [amp_env |-> <<EnvDecay>>, mod_env |-> <<>>],
     [amp_env |-> <<>>, mod_env |-> <<EnvDecay>>],
     [amp_env |-> <<EnvAbsent>>, mod_env |-> <<EnvAttackSustain>>]}

DeInit ==
    /\ de_zones \in SeqsUpTo(EnvZones, MaxEnvZones)
    /\ de_key \in {"amp_env", "mod_env"}
    /\ de_call = "none"
    /\ de_ret = <<>>
    /\ de_log = EmptyLog

DeIdle ==
    /\ de_zones = <<>>
    /\ de_key = "amp_env"
    /\ de_call = "none"
    /\ de_ret = <<>>
    /\ de_log = EmptyLog

CallDeriveEnvelope ==
    /\ de_call = "none"
    /\ de_call' = "_derive_envelope"
    /\ LET r == _derive_envelope(de_zones, de_key, Pno, de_log)
       IN  /\ de_ret' = r.ret
           /\ de_log' = r.log
    /\ UNCHANGED <<de_zones, de_key>>
    /\ UNCHANGED <<selVars, convVars, drumVars, auVars, lpVars, envVars, eoVars, rdVars, fxVars, zcVars, rgVars, nmVars>>

DeNext == CallDeriveEnvelope

----------------------------------------------------------------------------
\* _derive_fx called on its own: up to MaxFxZones zones of four kinds.

MaxFxZones == 4

\* fx_send of a zone as extract_presets builds it
FxSends ==
    {<<>>,
     <<[chorus |-> 0, reverb |-> 0, present |-> FALSE]>>,
     <<[chorus |-> 125, reverb |-> 500, present |-> TRUE]>>,
     <<[chorus |-> 1000, reverb |-> 0, present |-> TRUE]>>}

FxZones == {[fx_send |-> f] : f \in FxSends}

FxInit ==
    /\ fx_zones \in SeqsUpTo(FxZones, MaxFxZones)
    /\ fx_call = "none"
    /\ fx_ret = <<>>
    /\ fx_log = EmptyLog

FxIdle ==
    /\ fx_zones = <<>>
    /\ fx_call = "none"
    /\ fx_ret = <<>>
    /\ fx_log = EmptyLog

CallDeriveFx ==
    /\ fx_call = "none"
    /\ fx_call' = "_derive_fx"
    /\ LET r == _derive_fx(fx_zones, Pno, fx_log)
       IN  /\ fx_ret' = r.ret
           /\ fx_log' = r.log
    /\ UNCHANGED fx_zones
    /\ UNCHANGED <<selVars, convVars, drumVars, auVars, lpVars, envVars, eoVars, rdVars, deVars, zcVars, rgVars, nmVars>>

FxNext == CallDeriveFx

----------------------------------------------------------------------------
\* _adjust_loop_zero_crossing called on its own: up to MaxZcSamples samples
\* for one or two channels, loop points at or past the frames, the threshold
\* of convert_presets.

MaxZcSamples == 4

ZcValues == {0, 3, -5}

\* the zone the call is made for
ZcZone == [id |-> 1, owner |-> 1, preset |-> Pno, root_key |-> 60, vel_range |-> <<0, 127>>]

ZcInit ==
    /\ zc_pcm \in SeqsUpTo(ZcValues, MaxZcSamples)
    /\ zc_channels \in 1..2
    /\ zc_start \in 0..(MaxZcSamples + 1)
    /\ zc_end \in zc_start..(MaxZcSamples + 1)
    /\ zc_max_distance \in {0, 1, ZERO_CROSS_MAX_DISTANCE}
    /\ zc_call = "none"
    /\ zc_ret = <<zc_start, zc_end>>
    /\ zc_log = EmptyLog

ZcIdle ==
    /\ zc_pcm = <<>>
    /\ zc_channels = 1
    /\ zc_start = 0
    /\ zc_end = 0
    /\ zc_max_distance = 0
    /\ zc_call = "none"
    /\ zc_ret = <<0, 0>>
    /\ zc_log = EmptyLog

CallAdjustLoopZeroCrossing ==
    /\ zc_call = "none"
    /\ zc_call' = "_adjust_loop_zero_crossing"
    /\ LET r == _adjust_loop_zero_crossing(zc_pcm, zc_channels, zc_start, zc_end,
                                           zc_max_distance, ZERO_CROSS_THRESHOLD,
                                           Pno, ZcZone, zc_log)
       IN  /\ zc_ret' = <<r.loop_start, r.loop_end>>
           /\ zc_log' = r.log
    /\ UNCHANGED <<zc_pcm, zc_channels, zc_start, zc_end, zc_max_distance>>
    /\ UNCHANGED <<selVars, convVars, drumVars, auVars, lpVars, envVars, eoVars, rdVars, deVars, fxVars, rgVars, nmVars>>

ZcNext == CallAdjustLoopZeroCrossing

----------------------------------------------------------------------------
\* The region of one zone built on its own: samples of 1 .. MaxRgSamples
\* values recorded at 44100 Hz, any loop points, output at half, the same or
\* twice the rate.

MaxRgSamples == 4

RgValues == {0, 5}

NoSound ==
    [sample_rate |-> 0, channels |-> 1, framecount |-> 0, loop_start |-> 0, loop_end |-> 0,
     loop_enabled |-> FALSE, loop_on_release |-> FALSE]

RgZone(data, channels, loop_start, loop_end, loop_enabled) ==
    [id |-> 1, owner |-> 1, preset |-> Pno, root_key |-> 60, vel_range |-> <<0, 127>>,
     sample |-> [data |-> data, channels |-> channels, rate |-> 44100],
     loop_start |-> loop_start, loop_end |-> loop_end,
     loop_enabled |-> loop_enabled, loop_on_release |-> FALSE]

RgInit ==
    /\ \E data \in SeqsUpTo(RgValues, MaxRgSamples) \ {<<>>}, channels \in 1..2,
          loop_start \in 0..MaxRgSamples, loop_end \in 0..(MaxRgSamples + 1),
          loop_enabled \in BOOLEAN :
             rg_zone = RgZone(data, channels, loop_start, loop_end, loop_enabled)
    /\ rg_resample \in BOOLEAN
    /\ rg_resample_rate \in {22050, 44100, 88200}
    /\ ~rg_resample => rg_resample_rate = 44100
    /\ rg_zero_crossing \in BOOLEAN
    /\ rg_call = "none"
    /\ rg_ret = NoSound
    /\ rg_log = EmptyLog

RgIdle ==
    /\ rg_zone = RgZone(<<>>, 1, 0, 0, FALSE)
    /\ rg_resample = FALSE
    /\ rg_resample_rate = 0
    /\ rg_zero_crossing = FALSE
    /\ rg_call = "none"
    /\ rg_ret = NoSound
    /\ rg_log = EmptyLog

BuildRegion ==
    /\ rg_call = "none"
    /\ rg_call' = "region"
    /\ LET r == MelodicSound(rg_zone, rg_resample, rg_resample_rate, rg_zero_crossing,
                             ZERO_CROSS_MAX_DISTANCE, ZERO_CROSS_THRESHOLD, Pno, rg_log)
       IN  /\ rg_ret' = r.region
           /\ rg_log' = r.log
    /\ UNCHANGED <<rg_zone, rg_resample, rg_resample_rate, rg_zero_crossing>>
    /\ UNCHANGED <<selVars, convVars, drumVars, auVars, lpVars, envVars, eoVars, rdVars, deVars, fxVars, zcVars, nmVars>>

RgNext == BuildRegion

----------------------------------------------------------------------------
\* The bundles of a run written on their own: either one bundle of up to
\* MaxNameZones regions, or up to MaxBundles bundles of one region each.

MaxNameZones == 3
MaxBundles == 2

OutRoot == <<"o", "u", "t">>

\* sample names: plain, numbered, and spelled with characters the sanitizer
\* replaces
SampleNames ==
    {<<"k">>, <<"k", "_", "1">>, <<"k", "/", "1">>, <<"k", " ", " ", "1">>, <<" ", "k">>, <<>>}

\* preset names
BundleNames == {Pno, <<"P", "/", "o">>, <<"P", "_", "o">>, <<"P", "n", "o", "_", "0", "1">>}

NameZone(name, root_key) == [sample |-> [name |-> name], root_key |-> root_key]

NameZones == {NameZone(name, root_key) : name \in SampleNames, root_key \in {21, 60}}

Bundle(name, kind, zones) == [name |-> name, kind |-> kind, zones |-> zones]

NmInit ==
    /\ \/ \E zones \in SeqsUpTo(NameZones, MaxNameZones) \ {<<>>},
             kind \in {"multisample", "drum"} :
                nm_bundles = <<Bundle(Pno, kind, zones)>>
       \/ \E names \in SeqsUpTo(BundleNames, MaxBundles), kind \in {"multisample", "drum"} :
                nm_bundles = [k \in DOMAIN names |->
                                 Bundle(names[k], kind, <<NameZone(<<"k">>, 60)>>)]
    /\ nm_k = 0
    /\ nm_patches = <<>>
    /\ nm_disk = <<>>

NmIdle ==
    /\ nm_bundles = <<>>
    /\ nm_k = 0
    /\ nm_patches = <<>>
    /\ nm_disk = <<>>

\* lines 469-475 or 558-563 for every region, then lines 494-505 or 576-586
\* and the writer
WriteBundle ==
    /\ nm_k < Len(nm_bundles)
    /\ nm_k' = nm_k + 1
    /\ LET bundle == nm_bundles[nm_k + 1]
           files == RegionFileNames(
                        [k \in DOMAIN bundle.zones |->
                            IF bundle.kind = "drum" THEN DrumBaseName(bundle.zones[k])
                            ELSE MelodicBaseName(bundle.zones[k])])
       IN  /\ nm_patches' = Append(nm_patches,
                                   [dir |-> ensure_preset_dir(PresetDir(OutRoot, bundle.name)),
                                    samples |-> files])
           /\ nm_disk' = WriteFiles(nm_disk,
                                    WriterFiles(nm_k + 1, PresetDir(OutRoot, bundle.name), files))
    /\ UNCHANGED nm_bundles
    /\ UNCHANGED <<selVars, convVars, drumVars, auVars, lpVars, envVars, eoVars, rdVars, deVars, fxVars, zcVars, rgVars>>

NmNext == WriteBundle

----------------------------------------------------------------------------
\* Properties of the selector

Ids(zones) == {zones[i].id : i \in DOMAIN zones}

\* C2: for every zone list and every max_zones >= 1, select_zones_for_88_keys
\* returns normally with at most max_zones zones, each an element of the input
\* used at most once, and exactly max_zones of them when the input is longer.
C2_SelectAtMostMaxZones ==
    sel_call = "select" =>
        /\ sel_ret.raised = "no"
        /\ Len(sel_ret.value) <= sel_max_zones
        /\ Range(sel_ret.value) \subseteq Range(sel_zones)
        /\ Cardinality(Ids(sel_ret.value)) = Len(sel_ret.value)
        /\ Len(sel_zones) > sel_max_zones => Len(sel_ret.value) = sel_max_zones

\* C4: for a non-empty zone list and key_min <= key_max, assign_key_ranges
\* returns the zones in root-key order, the first (a zone of lowest root key)
\* with lokey == key_min and the last (a zone of highest root key) with
\* hikey == key_max, whatever the root keys are.
C4_AssignEndsAtBounds ==
    (sel_call = "assign" /\ sel_zones # <<>>) =>
        LET out == sel_ret.value
        IN  /\ Len(out) = Len(sel_zones)
            /\ \A i \in DOMAIN out : /\ out[1].root_key <= out[i].root_key
                                      /\ out[i].root_key <= out[Len(out)].root_key
            /\ out[1].lokey = sel_key_min
            /\ out[Len(out)].hikey = sel_key_max
            /\ \A i \in DOMAIN sel_zones : sel_zones[i] \in Range(out)

\* assign_key_ranges has run on several zones, some with a root key below
\* key_min and some with a root key above key_max.
C4_Witness ==
    /\ sel_call = "assign"
    /\ Len(sel_zones) >= 3
    /\ \E i \in DOMAIN sel_zones : sel_zones[i].root_key < sel_key_min
    /\ \E i \in DOMAIN sel_zones : sel_zones[i].root_key > sel_key_max

----------------------------------------------------------------------------
\* Properties of convert_presets

\* The regions handed to the writer, over all patches: <<patch, position>>.
AllRegions == UNION {{<<k, s>> : s \in DOMAIN written[k].regions} : k \in DOMAIN written}

RegionsOf(zid) ==
    Cardinality({ks \in AllRegions : written[ks[1]].regions[ks[2]].zone_id = zid})

DiscardsOf(zid) ==
    Cardinality({k \in DOMAIN log.discarded : log.discarded[k].zone_id = zid})

AllZoneIds == UNION {{<<p, i>> : i \in DOMAIN presets[p].zones} : p \in DOMAIN presets}

RECURSIVE SumKept(_, _)
SumKept(entries, k) ==
    IF k > Len(entries) THEN 0 ELSE entries[k].kept + SumKept(entries, k + 1)

\* C1: in 'keep' velocity mode, when convert_presets returns, every zone of
\* every input preset either became exactly one output region or has exactly
\* one entry in log.discarded (velocity_filtered, zone_downselect or
\* drum_velocity_choice); the regions are those counted in presets[].kept, so
\* len(discarded) is the number of input zones minus the number of regions.
C1_EveryZoneAccountedOnce ==
    (conv_pc = "returned" /\ velocity_mode = "keep") =>
        /\ \A zid \in AllZoneIds : RegionsOf(zid) + DiscardsOf(zid) = 1
        /\ \A k \in DOMAIN log.discarded :
              /\ log.discarded[k].zone_id \in AllZoneIds
              /\ log.discarded[k].reason \in
                    {"velocity_filtered", "zone_downselect", "drum_velocity_choice"}
        /\ \A ks \in AllRegions : written[ks[1]].regions[ks[2]].zone_id \in AllZoneIds
        /\ SumKept(log.presets, 1) = Cardinality(AllRegions)
        /\ Len(log.discarded) = Cardinality(AllZoneIds) - Cardinality(AllRegions)

\* A 'keep' run has returned that downselected a melodic preset and chose
\* among the velocity layers of a drum preset.
C1_Witness ==
    /\ conv_pc = "returned"
    /\ velocity_mode = "keep"
    /\ \E k \in DOMAIN log.discarded : log.discarded[k].reason = "zone_downselect"
    /\ \E k \in DOMAIN log.discarded : log.discarded[k].reason = "drum_velocity_choice"
    /\ \E k \in DOMAIN written : written[k].kind = "drum"
    /\ \E k \in DOMAIN written : written[k].kind = "multisample"

\* C3: every melodic preset written has at most 24 regions, in root-key
\* order, whose key ranges are contiguous and within bounds: the first lokey
\* is 21, the last hikey is 108, every bound lies in [21, 108], and each
\* lokey is the previous hikey + 1.
C3_MelodicRangesContiguous ==
    \A k \in DOMAIN written :
        written[k].kind = "multisample" =>
            LET regions == written[k].regions
            IN  /\ Len(regions) <= 24
                /\ regions[1].lokey = 21
                /\ regions[Len(regions)].hikey = 108
                /\ \A i \in DOMAIN regions :
                      /\ 21 <= regions[i].lokey /\ regions[i].lokey <= 108
                      /\ 21 <= regions[i].hikey /\ regions[i].hikey <= 108
                /\ \A i \in 1..(Len(regions) - 1) :
                      /\ regions[i].root_key <= regions[i + 1].root_key
                      /\ regions[i + 1].lokey = regions[i].hikey + 1

\* the calls claimed: (1, total, name of the first preset), (2, total, ...), ...
ProgressExpected ==
    [i \in 1..Len(presets) |-> <<i, Len(presets), presets[i].name>>]

\* C12: convert_presets accepts a progress_callback and calls it exactly once
\* per input preset, in input order, with (current, total, name), current
\* running 1 .. total.
C12_ProgressPerPreset ==
    "progress_callback" \in keywords =>
        /\ conv_pc # "TypeError"
        /\ conv_pc = "returned" => progress_calls = ProgressExpected

----------------------------------------------------------------------------
\* Properties of the drum velocity choice

\* The distance of a velocity range to the nearest target: 0 when a target
\* lies inside it.
DistanceToNearest(vel_range, targets) ==
    IF \E i \in DOMAIN targets : vel_range[1] <= targets[i] /\ targets[i] <= vel_range[2]
    THEN 0
    ELSE LET ds == {Min(Abs(targets[i] - vel_range[1]), Abs(targets[i] - vel_range[2]))
                    : i \in DOMAIN targets}
         IN  CHOOSE d \in ds : \A e \in ds : d <= e

ChoiceTuple(zone, targets) ==
    <<DistanceToNearest(zone.vel_range, targets),
      zone.vel_range[2] - zone.vel_range[1],
      -zone.vel_range[1]>>

LexLessOrEqual(a, b) ==
    \/ a[1] < b[1]
    \/ a[1] = b[1] /\ a[2] < b[2]
    \/ a[1] = b[1] /\ a[2] = b[2] /\ a[3] <= b[3]

\* C5: in 'closest' mode _select_drum_zones_by_velocity returns exactly one
\* zone per distinct root key of the input, the one of its root-key group with
\* the lexicographically smallest (distance to the nearest target, range
\* width, negated range low), the first encountered winning a full tie; every
\* other zone of the group is appended to discarded as drum_velocity_choice.
C5_DrumClosestChoice ==
    (drum_call /\ drum_vels # <<>>) =>
        LET sel == drum_ret.selected
            disc == drum_ret.log.discarded
        IN  /\ \A k \in DOMAIN sel : sel[k] \in DOMAIN drum_zones
            /\ \A i \in DOMAIN drum_zones :
                  Cardinality({k \in DOMAIN sel :
                      drum_zones[sel[k]].root_key = drum_zones[i].root_key}) = 1
            /\ \A k \in DOMAIN sel : \A j \in DOMAIN drum_zones :
                  (j # sel[k] /\ drum_zones[j].root_key = drum_zones[sel[k]].root_key) =>
                      /\ LexLessOrEqual(ChoiceTuple(drum_zones[sel[k]], drum_vels),
                                        ChoiceTuple(drum_zones[j], drum_vels))
                      /\ ChoiceTuple(drum_zones[sel[k]], drum_vels)
                            = ChoiceTuple(drum_zones[j], drum_vels) => sel[k] < j
                      /\ Cardinality({d \in DOMAIN disc :
                            /\ disc[d].zone_id = <<1, j>>
                            /\ disc[d].reason = "drum_velocity_choice"
                            /\ disc[d].selected_vel_range = drum_zones[sel[k]].vel_range}) = 1
            /\ Len(disc) = Len(drum_zones) - Len(sel)
            /\ drum_ret.log.warnings = <<>>

\* The choice has been made between two zones of one root key that are tied
\* in all three components, neither containing a target: the first was
\* selected and the second discarded.
C5_Witness ==
    /\ drum_call
    /\ drum_vels # <<>>
    /\ Len(drum_zones) = 2
    /\ drum_zones[1].root_key = drum_zones[2].root_key
    /\ drum_zones[1].vel_range = drum_zones[2].vel_range
    /\ DistanceToNearest(drum_zones[1].vel_range, drum_vels) > 0
    /\ drum_ret.selected = <<1>>
    /\ Len(drum_ret.log.discarded) = 1

----------------------------------------------------------------------------
\* Properties of the resamplers

\* C6: with src_rate == dst_rate, resample_linear, resample_sinc and
\* _resample_pcm each return a list equal to the input element for element
\* (the empty list included), and the input list is left as it was.
C6_ResampleIdentity ==
    [][(au_call' # "none" /\ au_src_rate = au_dst_rate) =>
          /\ au_ret'.raised = "no"
          /\ au_ret'.exact
          /\ au_ret'.value = au_samples
          /\ au_samples' = au_samples]_vars

\* resample_sinc has been called with equal rates on a list of several
\* different samples, numpy present.
C6_Witness ==
    /\ au_call = "sinc"
    /\ au_src_rate = au_dst_rate
    /\ au_args.has_numpy
    /\ Len(au_samples) >= 3
    /\ au_samples[1] # au_samples[2]
    /\ au_ret.value = au_samples

\* C7: for integer-ratio downsampling by k = src_rate / dst_rate,
\* resample_sinc on N samples returns exactly N / k samples when N is a
\* multiple of k, and the numpy implementation and the pure-Python fallback
\* return the same number of samples for every N.
C7_SincDownsampleLength ==
    (au_call = "sinc" /\ au_src_rate > au_dst_rate /\ au_src_rate % au_dst_rate = 0) =>
        LET k == au_src_rate \div au_dst_rate
            N == Len(au_samples)
            numpy == _resample_sinc_numpy(au_samples, au_src_rate, au_dst_rate, au_args.num_taps)
            pure == _resample_sinc_pure(au_samples, au_src_rate, au_dst_rate, au_args.num_taps)
        IN  /\ au_ret.raised = "no"
            /\ N % k = 0 => au_ret.len = N \div k
            /\ numpy.raised = "no" /\ pure.raised = "no" /\ numpy.len = pure.len

----------------------------------------------------------------------------
\* Properties of the loop-end offset

\* r is loop_end + offset clamped into [loop_start + 1, framecount]
ClampedEnd(r, loop_start, loop_end, framecount, offset) ==
    /\ loop_start < r
    /\ r <= framecount
    /\ (loop_start + 1 <= loop_end + offset /\ loop_end + offset <= framecount)
          => r = loop_end + offset
    /\ loop_end + offset < loop_start + 1 => r = loop_start + 1
    /\ loop_end + offset > framecount => r = framecount

\* C8: for loop_start < loop_end <= framecount, apply_loop_end_offset returns
\* loop_end + offset clamped into [loop_start + 1, framecount], and that is
\* the loop end _apply_offset_to_patch gives every enabled loop of the patch.
C8_LoopEndOffsetClamped ==
    /\ lp_call = "apply_loop_end_offset" =>
          LET g == lp_patch.regions[1]
          IN  (g.loop_start < g.loop_end /\ g.loop_end <= g.framecount) =>
                 ClampedEnd(lp_ret, g.loop_start, g.loop_end, g.framecount, lp_delta)
    /\ lp_call = "_apply_offset_to_patch" =>
          \A k \in DOMAIN lp_patch.regions :
             LET g == lp_patch.regions[k]
             IN  (g.loop_enabled /\ g.loop_start < g.loop_end /\ g.loop_end <= g.framecount) =>
                    ClampedEnd(lp_ret.regions[k].loop_end, g.loop_start, g.loop_end,
                               g.framecount, lp_delta)

\* A patch has been offset whose enabled loop would have ended past the
\* last frame: the end is the frame count.
C8_Witness ==
    /\ lp_call = "_apply_offset_to_patch"
    /\ lp_patch.regions # <<>>
    /\ LET g == lp_patch.regions[1]
       IN  /\ g.loop_enabled
           /\ g.loop_start < g.loop_end
           /\ g.loop_end < g.framecount
           /\ g.loop_end + lp_delta > g.framecount
           /\ lp_ret.regions[1].loop_end = g.framecount

----------------------------------------------------------------------------
\* Properties of the attack curve

\* C9: scale_attack_seconds returns 0 for every time of 0 seconds or less
\* and for every time at or below the 0.0111 s minimum, and 32767 for every
\* time of 360 seconds or more.
C9_AttackEnds ==
    (env_call = "scale_attack_seconds" /\ env_max_seconds = ATTACK_MAX_SECONDS) =>
        /\ env_seconds <= ATTACK_MIN_SECONDS => env_ret = 0
        /\ env_seconds >= ATTACK_MAX_SECONDS => env_ret = 32767

\* The curve has been evaluated above the maximum time.
C9_Witness ==
    /\ env_call = "scale_attack_seconds"
    /\ env_max_seconds = ATTACK_MAX_SECONDS
    /\ env_seconds > ATTACK_MAX_SECONDS
    /\ env_ret = 32767

\* C10: scale_attack_seconds maps an attack time of 10.0 seconds to the
\* maximum code 32767.
C10_TenSecondsSaturates ==
    (env_call = "scale_attack_seconds" /\ env_max_seconds = ATTACK_MAX_SECONDS
        /\ env_seconds = 10 * Units) => env_ret = 32767

----------------------------------------------------------------------------
\* Properties of the envelope mapping

\* C11: every attack, decay, sustain and release value mapped from a zone
\* envelope, whatever stages are present, is an integer in [0, 32767]; an
\* absent sustain maps to 32767 and absent time stages contribute 0 seconds.
C11_EnvelopeCodesInRange ==
    eo_call = "_env_to_opxy" =>
        /\ \A f \in {"attack", "decay", "sustain", "release"} : eo_ret[f] \in 0..32767
        /\ eo_env.sustain_cb = None => eo_ret.sustain = 32767
        /\ (eo_env.delay_tc = None /\ eo_env.attack_tc = None) => eo_ret.attack = 0
        /\ (eo_env.hold_tc = None /\ eo_env.decay_tc = None) => eo_ret.decay = 0
        /\ eo_env.delay_tc = None =>
              eo_ret.attack = scale_attack_seconds(StageSeconds(eo_env.attack_tc),
                                                   ATTACK_MAX_SECONDS)
        /\ eo_env.hold_tc = None =>
              eo_ret.decay = scale_attack_seconds(StageSeconds(eo_env.decay_tc),
                                                  ATTACK_MAX_SECONDS)
        /\ eo_env.release_tc = None =>
              eo_ret.release = scale_release_seconds(0, RELEASE_MAX_SECONDS)

\* An envelope has been mapped with a negative sustain, a release longer
\* than the release maximum and a delay and attack longer than the attack
\* maximum together.
C11_Witness ==
    /\ eo_call = "_env_to_opxy"
    /\ eo_env.sustain_cb # None
    /\ eo_env.sustain_cb < 0
    /\ eo_env.release_tc # None
    /\ timecents_to_seconds(eo_env.release_tc) > RELEASE_MAX_SECONDS
    /\ eo_env.delay_tc # None
    /\ eo_env.attack_tc # None
    /\ eo_ret.attack = 32767
    /\ eo_ret.release = 0
    /\ eo_ret.sustain = 32767

----------------------------------------------------------------------------
\* Properties of extract_presets
\*
\* They are stated over the bank passed in and computed from it directly: a
\* place <<p, b, ib>> names preset p, its bag b and bag ib of the instrument
\* that bag b refers to.

\* the last bag before place n of a bag list that lacks the reference ref
GlobalBefore(bags, n, ref) ==
    LET G == {k \in 1..(n - 1) : ref \notin DOMAIN bags[k]}
    IN  IF G = {} THEN <<>> ELSE <<bags[SetMax(G)]>>

PresetAt(at) == rd_sf2.presets[at[1]]
PresetBagAt(at) == PresetAt(at).bags[at[2]]
InstrumentAt(at) == rd_sf2.instruments[PresetBagAt(at)["OPER_INSTRUMENT"] + 1]
InstBagAt(at) == InstrumentAt(at).bags[at[3]]
PresetGlobalAt(at) == GlobalBefore(PresetAt(at).bags, at[2], "OPER_INSTRUMENT")
InstGlobalAt(at) == GlobalBefore(InstrumentAt(at).bags, at[3], "OPER_SAMPLE_ID")
SampleAt(at) == rd_sf2.samples[InstBagAt(at)["OPER_SAMPLE_ID"] + 1]

\* the bag pairs the walk comes to: a preset bag that refers to an
\* instrument of the bank and a bag of that instrument that refers to a sample
WalkedPresets == {p \in DOMAIN rd_sf2.presets : rd_sf2.presets[p].name # EOP}
LocalBags(p) ==
    {b \in DOMAIN rd_sf2.presets[p].bags :
        /\ "OPER_INSTRUMENT" \in DOMAIN rd_sf2.presets[p].bags[b]
        /\ InList(rd_sf2.instruments, rd_sf2.presets[p].bags[b]["OPER_INSTRUMENT"])
        /\ InstrumentAt(<<p, b>>).name # EOI}
SampleBags(p, b) ==
    {ib \in DOMAIN InstrumentAt(<<p, b>>).bags :
        "OPER_SAMPLE_ID" \in DOMAIN InstrumentAt(<<p, b>>).bags[ib]}
BagPairs ==
    UNION {UNION {{<<p, b, ib>> : ib \in SampleBags(p, b)} : b \in LocalBags(p)} :
              p \in WalkedPresets}

\* the bag pairs whose sample is a sample of the bank other than the
\* terminal record
ResolvedPairs ==
    {at \in BagPairs :
        /\ InList(rd_sf2.samples, InstBagAt(at)["OPER_SAMPLE_ID"])
        /\ SampleAt(at).name # EOS}

EmittedZones ==
    UNION {{rd_out.presets[i].zones[j] : j \in DOMAIN rd_out.presets[i].zones} :
              i \in DOMAIN rd_out.presets}
SkippedZones == {rd_out.skipped_zones[i] : i \in DOMAIN rd_out.skipped_zones}

\* the range of one level: the local bag's, else the global bag's, else
\* every value
LevelOf(local, global, oper) ==
    IF oper \in DOMAIN local THEN local[oper]
    ELSE IF global # <<>> /\ oper \in DOMAIN global[1] THEN global[1][oper]
    ELSE <<0, 127>>
Intersection(a, b) == <<Max(a[1], b[1]), Min(a[2], b[2])>>
ExpectedRange(at, oper) ==
    Intersection(LevelOf(PresetBagAt(at), PresetGlobalAt(at), oper),
                 LevelOf(InstBagAt(at), InstGlobalAt(at), oper))
Inverted(r) == r[1] > r[2]
InvertedAt(at) ==
    Inverted(ExpectedRange(at, "OPER_KEY_RANGE")) \/ Inverted(ExpectedRange(at, "OPER_VEL_RANGE"))

RangesOfZones ==
    \A z \in EmittedZones :
        /\ z.key_range = ExpectedRange(z.at, "OPER_KEY_RANGE")
        /\ z.vel_range = ExpectedRange(z.at, "OPER_VEL_RANGE")
        /\ ~Inverted(z.key_range)
        /\ ~Inverted(z.vel_range)
SkippedAsInvalid(at) ==
    /\ \A z \in EmittedZones : z.at # at
    /\ \E s \in SkippedZones : s.at = at /\ s.reason = "invalid_range"

\* C13, as amended: when extract_presets has returned, the key range and the
\* velocity range of every zone are the intersection of the preset-level and
\* the instrument-level range (local bag, else the level's global bag, else
\* unconstrained) and neither is inverted; a bag pair whose sample resolves
\* and whose intersected key or velocity range is inverted has no zone and a
\* skipped_zones entry with reason invalid_range.
C13_RangesIntersect ==
    rd_pc = "returned" =>
        /\ RangesOfZones
        /\ \A at \in ResolvedPairs : InvertedAt(at) => SkippedAsInvalid(at)

\* C13 as stated: the same of every bag pair, whether or not its sample
\* resolves.
C13_AsStated ==
    rd_pc = "returned" =>
        /\ RangesOfZones
        /\ \A at \in BagPairs : InvertedAt(at) => SkippedAsInvalid(at)

\* A call has returned a zone whose key range is narrower than the range of
\* either level, and has skipped a bag pair with a resolved sample for an
\* inverted range.
C13_Witness ==
    /\ rd_pc = "returned"
    /\ \E z \in EmittedZones :
          /\ z.key_range # LevelOf(PresetBagAt(z.at), PresetGlobalAt(z.at), "OPER_KEY_RANGE")
          /\ z.key_range # LevelOf(InstBagAt(z.at), InstGlobalAt(z.at), "OPER_KEY_RANGE")
    /\ \E at \in ResolvedPairs : InvertedAt(at) /\ SkippedAsInvalid(at)

\* the bags of a place in the order instrument-local, instrument-global,
\* preset-local, preset-global
PriorityBags(at) ==
    <<InstBagAt(at)>> \o InstGlobalAt(at) \o <<PresetBagAt(at)>> \o PresetGlobalAt(at)

\* the value of the first bag of the list that defines the generator
FirstDefined(bags, oper, default) ==
    LET D == {i \in DOMAIN bags : oper \in DOMAIN bags[i]}
    IN  IF D = {} THEN default
        ELSE bags[CHOOSE i \in D : \A j \in D : i <= j][oper]

\* C14: when extract_presets has returned, the exclusive class of every zone
\* is the value of the first bag that defines it in the order
\* instrument-local, instrument-global, preset-local, preset-global, and 0
\* when no bag defines it.
C14_ExclusiveClassPriority ==
    rd_pc = "returned" =>
        \A z \in EmittedZones :
            z.exclusive_class = FirstDefined(PriorityBags(z.at), "OPER_EXCLUSIVE_CLASS", 0)

\* the result for the bag pair at a place when pg and ig are the global
\* bags that contribute to it
WithGlobals(at, pg, ig) ==
    ZoneOfPair(PresetAt(at), InstrumentAt(at), SampleAt(at),
               _get_sample_pair(rd_sf2, SampleAt(at))[1],
               pg, PresetBagAt(at), ig, InstBagAt(at), at)
IsZone(r, z) == r.kind = "zone" /\ r.zone = z

\* C15: every zone is the zone of its bag pair with the last preset bag
\* without an instrument reference that comes before its preset bag in the
\* same preset, and the last instrument bag without a sample reference that
\* comes before its instrument bag in the same traversal of the instrument,
\* as the only global bags: no later global bag and no global bag of another
\* preset or of another instrument reference contributes.
C15_GlobalBagScope ==
    \A z \in EmittedZones :
        IsZone(WithGlobals(z.at, PresetGlobalAt(z.at), InstGlobalAt(z.at)), z)

\* A call has returned a zone of the first preset with a preset-global bag
\* before it and an instrument-global bag after it that would have changed
\* it, and a zone of the second preset that the preset-global bag of the
\* first preset would have changed.
C15_Witness ==
    /\ rd_pc = "returned"
    /\ \E z, y \in EmittedZones :
          /\ z.at[1] = 1
          /\ PresetGlobalAt(z.at) # <<>>
          /\ InstGlobalAt(z.at) = <<>>
          /\ \E k \in DOMAIN InstrumentAt(z.at).bags :
                /\ k > z.at[3]
                /\ "OPER_SAMPLE_ID" \notin DOMAIN InstrumentAt(z.at).bags[k]
                /\ ~IsZone(WithGlobals(z.at, PresetGlobalAt(z.at),
                                       <<InstrumentAt(z.at).bags[k]>>), z)
          /\ y.at[1] = 2
          /\ PresetGlobalAt(y.at) = <<>>
          /\ ~IsZone(WithGlobals(y.at, PresetGlobalAt(z.at), InstGlobalAt(y.at)), y)

\* the bags that contribute to the bag pair at a place
ContributingBags(at) ==
    PresetGlobalAt(at) \o <<PresetBagAt(at)>> \o InstGlobalAt(at) \o <<InstBagAt(at)>>

RECURSIVE SumGen(_, _)
SumGen(bags, oper) ==
    IF bags = <<>> THEN 0
    ELSE (IF oper \in DOMAIN Head(bags) THEN Head(bags)[oper] ELSE 0) + SumGen(Tail(bags), oper)

\* the accumulated offsets and the trim window [WindowStart, WindowEnd) of
\* a place, in frames of its sample
StartOffsetAt(at) ==
    SumGen(ContributingBags(at), "OPER_START_ADDR_OFFSET")
        + 32768 * SumGen(ContributingBags(at), "OPER_START_ADDR_COARSE_OFFSET")
EndOffsetAt(at) ==
    SumGen(ContributingBags(at), "OPER_END_ADDR_OFFSET")
        + 32768 * SumGen(ContributingBags(at), "OPER_END_ADDR_COARSE_OFFSET")
PairAt(at) == _get_sample_pair(rd_sf2, SampleAt(at))[1]
LengthAt(at) == Len(PairAt(at).pcm) \div PairAt(at).channels
WindowStart(at) == Max(0, StartOffsetAt(at))
WindowEnd(at) == Min(LengthAt(at), LengthAt(at) + EndOffsetAt(at))
WindowFrames(at) ==
    [k \in 1..((WindowEnd(at) - WindowStart(at)) * PairAt(at).channels) |->
        PairAt(at).pcm[WindowStart(at) * PairAt(at).channels + k]]

\* C16: when extract_presets has returned, a bag pair with a resolved sample
\* and valid ranges whose trim window has no frame has no zone and has a
\* skipped_zones entry, and the sample data of every zone are the frames of
\* its trim window, at least one.
C16_EmptyWindowDropped ==
    rd_pc = "returned" =>
        /\ \A at \in ResolvedPairs :
              (~InvertedAt(at) /\ WindowEnd(at) <= WindowStart(at)) =>
                  /\ \A z \in EmittedZones : z.at # at
                  /\ \E s \in SkippedZones : s.at = at
        /\ \A z \in EmittedZones :
              /\ WindowEnd(z.at) > WindowStart(z.at)
              /\ z.sample.data = WindowFrames(z.at)

\* every instrument reference of the bank names an instrument of the bank
InstrumentsResolve ==
    \A p \in WalkedPresets : \A b \in DOMAIN rd_sf2.presets[p].bags :
        "OPER_INSTRUMENT" \in DOMAIN rd_sf2.presets[p].bags[b] =>
            InList(rd_sf2.instruments, rd_sf2.presets[p].bags[b]["OPER_INSTRUMENT"])

\* C17: on a bank whose instrument references resolve, extract_presets does
\* not raise; when it has returned, every bag pair whose sample reference
\* names the terminal record or no sample of the bank has no zone and has a
\* skipped_zones entry with reason missing_sample and the names of its
\* preset and instrument, and every other bag pair has its zone or its
\* skipped_zones entry.
C17_UnresolvedSampleSkipped ==
    InstrumentsResolve =>
        /\ rd_pc # "IndexError"
        /\ rd_pc = "returned" =>
              /\ \A at \in BagPairs \ ResolvedPairs :
                    /\ \A z \in EmittedZones : z.at # at
                    /\ \E s \in SkippedZones :
                          /\ s.at = at
                          /\ s.reason = "missing_sample"
                          /\ s.preset = PresetAt(at).name
                          /\ s.instrument = InstrumentAt(at).name
              /\ \A at \in ResolvedPairs :
                    \/ \E z \in EmittedZones : z.at = at
                    \/ \E s \in SkippedZones : s.at = at

\* the loop points of a place after the offsets, counted from the start of
\* the trimmed sample, and its sample mode
LoopStartAt(at) ==
    PairAt(at).loop_start + SumGen(ContributingBags(at), "OPER_START_LOOP_ADDR_OFFSET")
        + 32768 * SumGen(ContributingBags(at), "OPER_START_LOOP_ADDR_COARSE_OFFSET")
        - WindowStart(at)
LoopEndAt(at) ==
    PairAt(at).loop_end + SumGen(ContributingBags(at), "OPER_END_LOOP_ADDR_OFFSET")
        + 32768 * SumGen(ContributingBags(at), "OPER_END_LOOP_ADDR_COARSE_OFFSET")
        - WindowStart(at)
SampleModeAt(at) == FirstDefined(PriorityBags(at), "OPER_SAMPLE_MODES", 0)
ReleaseBit(mode) == (mode \div 2) % 2 = 1
FrameCount(z) == Len(z.sample.data) \div z.sample.channels

\* C18: of every zone, loop_enabled is true iff the offset-adjusted loop
\* start is less than the loop end and the sample mode is not 0; an enabled
\* loop has 0 <= loop_start < loop_end <= frame count of the trimmed sample;
\* loop_on_release is true iff the loop is enabled and bit 0x2 of the sample
\* mode is set.
C18_LoopFlags ==
    \A z \in EmittedZones :
        /\ z.loop_enabled <=> (LoopStartAt(z.at) < LoopEndAt(z.at) /\ SampleModeAt(z.at) # 0)
        /\ z.loop_enabled =>
              /\ 0 <= z.loop_start
              /\ z.loop_start < z.loop_end
              /\ z.loop_end <= FrameCount(z)
        /\ z.loop_on_release <=> (z.loop_enabled /\ ReleaseBit(SampleModeAt(z.at)))

\* A call has returned a zone with an enabled loop held on release whose
\* loop end lay beyond the trimmed sample, and a zone whose sample mode has
\* bit 0x2 set and whose loop is disabled for its loop start not being less
\* than its loop end.
C18_Witness ==
    /\ rd_pc = "returned"
    /\ \E z, y \in EmittedZones :
          /\ z.loop_enabled
          /\ z.loop_on_release
          /\ LoopEndAt(z.at) > FrameCount(z)
          /\ z.loop_end = FrameCount(z)
          /\ ~y.loop_enabled
          /\ ~y.loop_on_release
          /\ ReleaseBit(SampleModeAt(y.at))
          /\ LoopStartAt(y.at) >= LoopEndAt(y.at)

\* a name contains a drum token, whatever the case of its letters
MentionsDrum(name) ==
    \E token \in DRUM_NAME_TOKENS : \E i \in 1..Len(name) :
        /\ i + Len(token) - 1 <= Len(name)
        /\ \A k \in 1..Len(token) : LowerChar(name[i + k - 1]) = token[k]

ZoneSet(P) == {P.zones[j] : j \in DOMAIN P.zones}
InstrumentMentionsDrum(P) == \E z \in ZoneSet(P) : MentionsDrum(z.instrument)
MostlySingleNotes(P) ==
    /\ 10 * Cardinality({j \in DOMAIN P.zones : P.zones[j].key_range[1] = P.zones[j].key_range[2]})
           >= 7 * Len(P.zones)
    /\ Cardinality({z.root_key : z \in ZoneSet(P)}) >= Min(8, Len(P.zones))
EmittedPresets == {rd_out.presets[i] : i \in DOMAIN rd_out.presets}
BankOf(P) == rd_sf2.presets[P.at].bank
DrumWarnings(P) ==
    {i \in DOMAIN rd_out.warnings :
        rd_out.warnings[i].reason = "drum_heuristic" /\ rd_out.warnings[i].preset = P.name}

\* C19: every emitted preset has a zone; it is a drum preset iff its bank is
\* 128, or its name or the instrument name of one of its zones contains a
\* drum token, or at least 70% of its zones are on a single key and its
\* distinct root keys are at least min(8, zone count).  It has a
\* drum_heuristic warning, one, iff it is a drum preset and its bank is not
\* 128, and the warning names a trigger that holds.
C19_DrumClassification ==
    \A P \in EmittedPresets :
        /\ P.zones # <<>>
        /\ P.is_drum <=> \/ BankOf(P) = 128
                         \/ MentionsDrum(P.name)
                         \/ InstrumentMentionsDrum(P)
                         \/ MostlySingleNotes(P)
        /\ DrumWarnings(P) # {} <=> (P.is_drum /\ BankOf(P) # 128)
        /\ Cardinality(DrumWarnings(P)) <= 1
        /\ \A i \in DrumWarnings(P) :
              \/ rd_out.warnings[i].detail = "name" /\ MentionsDrum(P.name)
              \/ rd_out.warnings[i].detail = "instrument_name" /\ InstrumentMentionsDrum(P)
              \/ rd_out.warnings[i].detail = "single_note_zones" /\ MostlySingleNotes(P)

\* A call has returned a drum preset of bank 128 without a warning and a
\* drum preset of another bank with the warning single_note_zones.
C19_Witness ==
    /\ rd_pc = "returned"
    /\ \E P, Q \in EmittedPresets :
          /\ BankOf(P) = 128
          /\ P.is_drum
          /\ DrumWarnings(P) = {}
          /\ BankOf(Q) # 128
          /\ Q.is_drum
          /\ ~MentionsDrum(Q.name)
          /\ \E i \in DrumWarnings(Q) : rd_out.warnings[i].detail = "single_note_zones"

----------------------------------------------------------------------------
\* Properties of _derive_envelope

\* the zones that have the envelope present, and the tuple of each
PresentZones ==
    {i \in DOMAIN de_zones :
        IF de_zones[i][de_key] = <<>> THEN FALSE ELSE de_zones[i][de_key][1].present}
MappedTuple(i) == TupleOf(_env_to_opxy(de_zones[i][de_key][1]))
Occurrences(t) == Cardinality({i \in PresentZones : MappedTuple(i) = t})
FirstMet(t) == CHOOSE i \in PresentZones :
                  MappedTuple(i) = t /\ \A j \in PresentZones : MappedTuple(j) = t => i <= j
DistinctTuples == {MappedTuple(i) : i \in PresentZones}
MixedWarnings ==
    {i \in DOMAIN de_log.warnings : de_log.warnings[i].reason = "mixed_envelope"}

\* C20: when _derive_envelope has returned, the result is None iff no zone
\* has the envelope present; otherwise it is a tuple no other tuple of the
\* zones that have it present occurs more often than, and that was met
\* before every other tuple occurring as often; the log has a mixed_envelope
\* warning iff more than one distinct tuple occurs, and its variants is the
\* number of distinct tuples.
C20_EnvelopeMode ==
    de_call = "_derive_envelope" =>
        /\ de_ret = <<>> <=> PresentZones = {}
        /\ de_ret # <<>> =>
              /\ TupleOf(de_ret[1]) \in DistinctTuples
              /\ \A t \in DistinctTuples \ {TupleOf(de_ret[1])} :
                    \/ Occurrences(t) < Occurrences(TupleOf(de_ret[1]))
                    \/ /\ Occurrences(t) = Occurrences(TupleOf(de_ret[1]))
                       /\ FirstMet(TupleOf(de_ret[1])) < FirstMet(t)
        /\ MixedWarnings # {} <=> Cardinality(DistinctTuples) > 1
        /\ Cardinality(MixedWarnings) <= 1
        /\ \A i \in MixedWarnings :
              /\ de_log.warnings[i].variants = Cardinality(DistinctTuples)
              /\ de_log.warnings[i].env = de_key

\* A call has returned the tuple met first of two tuples that occur equally
\* often, two zones with different envelopes giving one of the tuples, and
\* has logged the warning.
C20_Witness ==
    /\ de_call = "_derive_envelope"
    /\ de_ret # <<>>
    /\ MixedWarnings # {}
    /\ \E t \in DistinctTuples \ {TupleOf(de_ret[1])} :
          /\ Occurrences(t) = Occurrences(TupleOf(de_ret[1]))
          /\ \E i, j \in PresentZones :
                /\ MappedTuple(i) = t
                /\ MappedTuple(j) = t
                /\ de_zones[i][de_key] # de_zones[j][de_key]

\* the zones that lack the envelope, and the warnings about them
LackingZones == DOMAIN de_zones \ PresentZones
MissingWarnings ==
    {i \in DOMAIN de_log.warnings : de_log.warnings[i].reason = "missing_envelope_zones"}

\* C21: when _derive_envelope has returned and at least one zone lacks the
\* envelope, the log has a missing_envelope_zones warning for the preset and
\* the envelope kind whose missing field is the number of the zones that
\* lack it, also when every zone lacks it.
C21_MissingEnvelopeWarned ==
    (de_call = "_derive_envelope" /\ LackingZones # {}) =>
        \E i \in MissingWarnings :
            /\ de_log.warnings[i].preset = Pno
            /\ de_log.warnings[i].env = de_key
            /\ de_log.warnings[i].missing = Cardinality(LackingZones)

----------------------------------------------------------------------------
\* Properties of the regions convert_presets hands to the writer

\* the regions of the melodic patches written: <<patch, position>>
MelodicRegions == {ks \in AllRegions : written[ks[1]].kind = "multisample"}

\* C29: every melodic region handed to the writer has a key range that
\* contains its root key: lokey <= root_key <= hikey.
C29_RootInsideKeyRange ==
    \A ks \in MelodicRegions :
        LET region == written[ks[1]].regions[ks[2]]
        IN  region.lokey <= region.root_key /\ region.root_key <= region.hikey

----------------------------------------------------------------------------
\* Properties of the drum velocity warning

\* the root keys none of whose zones has a target velocity in its range
UnmatchedRoots ==
    {drum_zones[i].root_key : i \in DOMAIN drum_zones} \
        {drum_zones[i].root_key :
            i \in {j \in DOMAIN drum_zones : _velocity_match(drum_zones[j].vel_range, drum_vels)}}

\* C25: when the drum zones of a preset have been chosen, the log has a
\* drum_velocity_missing warning naming every root key none of whose zones
\* has a velocity range containing a target velocity.
C25_DrumVelocityMissingWarned ==
    drum_call =>
        \A root \in UnmatchedRoots :
            \E k \in DOMAIN drum_ret.log.warnings :
                /\ drum_ret.log.warnings[k].reason = "drum_velocity_missing"
                /\ drum_ret.log.warnings[k].root_key = root

----------------------------------------------------------------------------
\* Properties of the diagnostics accumulator

IsPrefix(s, t) == Len(s) <= Len(t) /\ SubSeq(t, 1, Len(s)) = s

\* the name of the entry of velocity variant v (0: no variant) and drum
\* chunk c (0: the preset is not split into chunks) of a preset
EntryName(preset, v, c) ==
    preset.name
        \o (IF v = 0 THEN <<>> ELSE <<"_vel", ToString(velocities[v])>>)
        \o (IF c = 0 THEN <<>> ELSE <<"_", TwoDigits(c)>>)

\* the variants and chunks a preset can have
EntryKeys ==
    (IF velocity_mode = "split" THEN DOMAIN velocities ELSE {0})
        \X (0..((MAX_ZONES + MaxOver) \div DRUM_CHUNK + 1))

KeysOf(preset, entry) == {vc \in EntryKeys : EntryName(preset, vc[1], vc[2]) = entry.name}

\* the order of processing: variant by variant, chunk by chunk
KeyBefore(a, b) == a[1] < b[1] \/ (a[1] = b[1] /\ a[2] < b[2])

\* the presets entries a step appends
NewEntries == SubSeq(log'.presets, Len(log.presets) + 1, Len(log'.presets))

\* C30: every step of convert_presets leaves the entries of discarded,
\* warnings and presets as they are and in place, appending to the lists
\* only; the presets entries appended while one input preset is processed
\* are entries of that preset, in the order of its velocity variants and,
\* within a variant, of its drum chunks.
C30_LogAppendOnly ==
    [][/\ IsPrefix(log.discarded, log'.discarded)
       /\ IsPrefix(log.warnings, log'.warnings)
       /\ IsPrefix(log.presets, log'.presets)
       /\ Len(log'.presets) > Len(log.presets) =>
             /\ conv_pc = "loop" /\ conv_i' = conv_i + 1
             /\ \A k \in DOMAIN NewEntries :
                   Cardinality(KeysOf(presets[conv_i'], NewEntries[k])) = 1
             /\ \A k \in DOMAIN NewEntries : \A m \in DOMAIN NewEntries :
                   k < m =>
                      KeyBefore(CHOOSE vc \in KeysOf(presets[conv_i'], NewEntries[k]) : TRUE,
                                CHOOSE vc \in KeysOf(presets[conv_i'], NewEntries[m]) : TRUE)
      ]_vars

\* A run has returned that converted two presets in 'split' mode, one of
\* them a drum preset split into chunks for each velocity, and that logged
\* discards and warnings: six entries or more in presets.
C30_Witness ==
    /\ conv_pc = "returned"
    /\ velocity_mode = "split"
    /\ Len(presets) = 2
    /\ Len(velocities) = 2
    /\ Len(log.presets) >= 6
    /\ \E k \in DOMAIN log.presets :
          log.presets[k].name = EntryName(presets[1], 2, 2)
    /\ \E k \in DOMAIN log.presets : \E v \in DOMAIN velocities :
          log.presets[k].name = EntryName(presets[2], v, 0)
    /\ log.discarded # <<>>
    /\ log.warnings # <<>>

----------------------------------------------------------------------------
\* Properties of _derive_fx

FxPairs == {FxTuple(fx_zones[i]) : i \in DOMAIN fx_zones}
FxOccurrences(t) == Cardinality({i \in DOMAIN fx_zones : FxTuple(fx_zones[i]) = t})
MixedFxWarnings ==
    {i \in DOMAIN fx_log.warnings : fx_log.warnings[i].reason = "mixed_fx_send"}

\* C22: when _derive_fx has returned for a preset with zones, the pair
\* (chorus%, reverb%) it returns occurs among the zones at least as often as
\* any other pair, and the log has a mixed_fx_send warning iff the zones
\* carry more than one distinct pair: none when all zones have the same
\* pair, however many zones there are.
C22_FxSendMode ==
    (fx_call = "_derive_fx" /\ fx_zones # <<>>) =>
        /\ fx_ret # <<>>
        /\ <<fx_ret[1].chorus_percent, fx_ret[1].reverb_percent>> \in FxPairs
        /\ \A t \in FxPairs :
              FxOccurrences(t)
                 <= FxOccurrences(<<fx_ret[1].chorus_percent, fx_ret[1].reverb_percent>>)
        /\ MixedFxWarnings # {} <=> Cardinality(FxPairs) > 1

----------------------------------------------------------------------------
\* Properties of _adjust_loop_zero_crossing

ZcFrames == Len(zc_pcm) \div zc_channels

\* the greatest absolute value among the samples of a frame
PeakAt(frame) ==
    SetMax({Abs(zc_pcm[frame * zc_channels + c]) : c \in 1..zc_channels})

\* a loop point brought back to the last frame
OnLastFrame(point) == Min(point, ZcFrames - 1)

\* C24: called with loop_start < loop_end, _adjust_loop_zero_crossing
\* returns the pair it was given or a pair (s, e) with
\* 0 <= s < e <= framecount - 1, s and e each within max_distance frames of
\* the given start and end brought back to the last frame, and the peak
\* amplitude at s and at e not above the peak at those frames; the pair
\* returned never has e <= s.
C24_ZeroCrossingAdjusted ==
    (zc_call = "_adjust_loop_zero_crossing" /\ zc_start < zc_end) =>
        /\ zc_ret[1] < zc_ret[2]
        /\ \/ zc_ret = <<zc_start, zc_end>>
           \/ /\ 0 <= zc_ret[1] /\ zc_ret[2] <= ZcFrames - 1
              /\ Abs(zc_ret[1] - OnLastFrame(zc_start)) <= zc_max_distance
              /\ Abs(zc_ret[2] - OnLastFrame(zc_end)) <= zc_max_distance
              /\ PeakAt(zc_ret[1]) <= PeakAt(OnLastFrame(zc_start))
              /\ PeakAt(zc_ret[2]) <= PeakAt(OnLastFrame(zc_end))

\* A call has moved both loop points to quieter frames, and logged it.
C24_Witness ==
    /\ zc_call = "_adjust_loop_zero_crossing"
    /\ zc_start < zc_end
    /\ zc_end <= ZcFrames - 1
    /\ zc_ret[1] # zc_start
    /\ zc_ret[2] # zc_end
    /\ PeakAt(zc_ret[1]) < PeakAt(zc_start)
    /\ PeakAt(zc_ret[2]) < PeakAt(zc_end)
    /\ Len(zc_log.warnings) = 1

----------------------------------------------------------------------------
\* Properties of the loop of a melodic region

InvalidLoopWarnings ==
    {i \in DOMAIN rg_log.warnings : rg_log.warnings[i].reason = "invalid_loop"}

\* C23: a melodic region, built with or without resampling and with or
\* without zero-crossing snapping, has 0 <= loop_start < loop_end <= framecount
\* when its loop is enabled and loop_start = loop_end = 0 when it is not.
C23_LoopWithinFrames ==
    rg_call = "region" =>
        IF rg_ret.loop_enabled
        THEN /\ 0 <= rg_ret.loop_start
             /\ rg_ret.loop_start < rg_ret.loop_end
             /\ rg_ret.loop_end <= rg_ret.framecount
        ELSE rg_ret.loop_start = 0 /\ rg_ret.loop_end = 0

----------------------------------------------------------------------------
\* Properties of the names of files and directories

\* C27: the file names of the regions of a bundle are pairwise distinct, so
\* that every region's file holds that region's audio after the bundle is
\* written.
C27_FileNamesDistinct ==
    \A b \in DOMAIN nm_patches :
        \A i \in DOMAIN nm_patches[b].samples : \A j \in DOMAIN nm_patches[b].samples :
            i # j => nm_patches[b].samples[i] # nm_patches[b].samples[j]

\* C28: the bundles of a run are written to pairwise different
\* directories, so that the patch.json of every bundle written is still the
\* one on disk.
C28_DirectoriesDistinct ==
    \A a \in DOMAIN nm_patches : \A b \in DOMAIN nm_patches :
        a # b => nm_patches[a].dir # nm_patches[b].dir

----------------------------------------------------------------------------
\* Properties of the drum patches

\* the presets converted so far that are written as drum presets, each with
\* a velocity variant (0: 'keep' mode)
DrumRuns ==
    {pv \in (1..conv_i) \X (IF velocity_mode = "split" THEN DOMAIN velocities ELSE {0}) :
        _resolve_is_drum(presets[pv[1]], force_mode)}

\* the zones of a preset that survive the velocity filter of a variant: those
\* without an entry in discarded for it
Survivors(p, v) ==
    {i \in DOMAIN presets[p].zones :
        ~\E d \in DOMAIN log.discarded :
            /\ log.discarded[d].zone_id = <<p, i>>
            /\ v # 0 => log.discarded[d].vels = <<velocities[v]>>}

\* the patches written for a variant of a preset, in the order written
PatchesOf(p, v) ==
    LET handed == SelectSeq(written, LAMBDA w :
                     /\ w.kind = "drum"
                     /\ w.regions[1].zone_id[1] = p
                     /\ \E c \in 0..Len(written) : w.name = EntryName(presets[p], v, c))
    IN  [k \in DOMAIN handed |-> write_drum_preset(handed[k])]

RECURSIVE AllRegionsOf(_)
AllRegionsOf(patches) ==
    IF patches = <<>> THEN <<>> ELSE Head(patches).regions \o AllRegionsOf(Tail(patches))

\* C26: the zones of a drum preset that survive are written, in root-key
\* order, in consecutive chunks of at most 24, one patch per chunk, named
\* <preset>_01, _02, ... when there is more than one chunk; the region at
\* position s (from 0) of a patch has lokey = hikey = 53 + s, so the notes of
\* a patch are pairwise distinct and within 53 .. 76; every surviving zone
\* is in exactly one patch.
C26_DrumSlots ==
    \A pv \in DrumRuns :
        LET p == pv[1]
            v == pv[2]
            patches == PatchesOf(p, v)
            regions == AllRegionsOf(patches)
            n == Cardinality(Survivors(p, v))
        IN  /\ Len(patches) = (n + 23) \div 24
            /\ \A c \in DOMAIN patches :
                  /\ patches[c].name = EntryName(presets[p], v, IF Len(patches) > 1 THEN c ELSE 0)
                  /\ Len(patches[c].regions) = IF c < Len(patches) THEN 24 ELSE n - 24 * (c - 1)
                  /\ \A s \in DOMAIN patches[c].regions :
                        /\ patches[c].regions[s].lokey = 53 + (s - 1)
                        /\ patches[c].regions[s].hikey = 53 + (s - 1)
                        /\ patches[c].regions[s].lokey \in 53..76
                  /\ \A s \in DOMAIN patches[c].regions : \A t \in DOMAIN patches[c].regions :
                        s # t => patches[c].regions[s].lokey # patches[c].regions[t].lokey
            /\ \A i \in Survivors(p, v) :
                  Cardinality({s \in DOMAIN regions : regions[s].zone_id = <<p, i>>}) = 1
            /\ \A s \in DOMAIN regions : regions[s].zone_id[2] \in Survivors(p, v)
            /\ \A s \in 1..(Len(regions) - 1) :
                  presets[p].zones[regions[s].zone_id[2]].root_key
                     <= presets[p].zones[regions[s + 1].zone_id[2]].root_key

\* A run has returned that wrote a drum preset of more than 24 surviving
\* zones as two patches, _01 with 24 regions and _02 with the rest.
C26_Witness ==
    /\ conv_pc = "returned"
    /\ \E pv \in DrumRuns :
          /\ Cardinality(Survivors(pv[1], pv[2])) > 24
          /\ Len(PatchesOf(pv[1], pv[2])) = 2
          /\ PatchesOf(pv[1], pv[2])[2].name = EntryName(presets[pv[1]], pv[2], 2)
          /\ PatchesOf(pv[1], pv[2])[2].regions[1].lokey = 53

----------------------------------------------------------------------------
\* The specifications

\* Each specification starts one component and leaves the others idle.

InitSelect ==
    SelInit /\ ConvIdle /\ DrumIdle /\ AuIdle /\ LpIdle /\ EnvIdle /\ EoIdle /\ RdIdle /\ DeIdle /\ FxIdle /\ ZcIdle /\ RgIdle /\ NmIdle

SpecSelect == InitSelect /\ [][SelNext]_vars

InitConvert ==
    ConvInit /\ SelIdle /\ DrumIdle /\ AuIdle /\ LpIdle /\ EnvIdle /\ EoIdle /\ RdIdle /\ DeIdle /\ FxIdle /\ ZcIdle /\ RgIdle /\ NmIdle

SpecConvert == InitConvert /\ [][ConvNext]_vars

InitDrum ==
    DrumInit /\ SelIdle /\ ConvIdle /\ AuIdle /\ LpIdle /\ EnvIdle /\ EoIdle /\ RdIdle /\ DeIdle /\ FxIdle /\ ZcIdle /\ RgIdle /\ NmIdle

SpecDrum == InitDrum /\ [][DrumNext]_vars

InitAudio ==
    AuInit /\ SelIdle /\ ConvIdle /\ DrumIdle /\ LpIdle /\ EnvIdle /\ EoIdle /\ RdIdle /\ DeIdle /\ FxIdle /\ ZcIdle /\ RgIdle /\ NmIdle

SpecAudio == InitAudio /\ [][AuNext]_vars

InitLoop ==
    LpInit /\ SelIdle /\ ConvIdle /\ DrumIdle /\ AuIdle /\ EnvIdle /\ EoIdle /\ RdIdle /\ DeIdle /\ FxIdle /\ ZcIdle /\ RgIdle /\ NmIdle

SpecLoop == InitLoop /\ [][LpNext]_vars

InitEnvelope ==
    EnvInit /\ SelIdle /\ ConvIdle /\ DrumIdle /\ AuIdle /\ LpIdle /\ EoIdle /\ RdIdle /\ DeIdle /\ FxIdle /\ ZcIdle /\ RgIdle /\ NmIdle

SpecEnvelope == InitEnvelope /\ [][EnvNext]_vars

InitEnvToOpxy ==
    EoInit /\ SelIdle /\ ConvIdle /\ DrumIdle /\ AuIdle /\ LpIdle /\ EnvIdle /\ RdIdle /\ DeIdle /\ FxIdle /\ ZcIdle /\ RgIdle /\ NmIdle

SpecEnvToOpxy == InitEnvToOpxy /\ [][EoNext]_vars

InitReader ==
    RdInit /\ SelIdle /\ ConvIdle /\ DrumIdle /\ AuIdle /\ LpIdle /\ EnvIdle /\ EoIdle /\ DeIdle /\ FxIdle /\ ZcIdle /\ RgIdle /\ NmIdle

SpecReader == InitReader /\ [][RdNext]_vars

InitDeriveEnvelope ==
    DeInit /\ SelIdle /\ ConvIdle /\ DrumIdle /\ AuIdle /\ LpIdle /\ EnvIdle /\ EoIdle /\ RdIdle /\ FxIdle /\ ZcIdle /\ RgIdle /\ NmIdle

SpecDeriveEnvelope == InitDeriveEnvelope /\ [][DeNext]_vars

InitDeriveFx ==
    FxInit /\ SelIdle /\ ConvIdle /\ DrumIdle /\ AuIdle /\ LpIdle /\ EnvIdle /\ EoIdle /\ RdIdle /\ DeIdle /\ ZcIdle /\ RgIdle /\ NmIdle

SpecDeriveFx == InitDeriveFx /\ [][FxNext]_vars

InitZeroCrossing ==
    ZcInit /\ SelIdle /\ ConvIdle /\ DrumIdle /\ AuIdle /\ LpIdle /\ EnvIdle /\ EoIdle /\ RdIdle /\ DeIdle /\ FxIdle /\ RgIdle /\ NmIdle

SpecZeroCrossing == InitZeroCrossing /\ [][ZcNext]_vars

InitRegion ==
    RgInit /\ SelIdle /\ ConvIdle /\ DrumIdle /\ AuIdle /\ LpIdle /\ EnvIdle /\ EoIdle /\ RdIdle /\ DeIdle /\ FxIdle /\ ZcIdle /\ NmIdle

SpecRegion == InitRegion /\ [][RgNext]_vars

InitNames ==
    NmInit /\ SelIdle /\ ConvIdle /\ DrumIdle /\ AuIdle /\ LpIdle /\ EnvIdle /\ EoIdle /\ RdIdle /\ DeIdle /\ FxIdle /\ ZcIdle /\ RgIdle

SpecNames == InitNames /\ [][NmNext]_vars

============================================================================
